---------------------------- MODULE Spec2Model ----------------------------
(***************************************************************************)
(* Pixel-Forge PvP backend: the match registry, the per-tick combat        *)
(* simulation, the physics-modification engine and the weapon generator.   *)
(*                                                                         *)
(* Conventions of the model                                                *)
(*  - time is the wall clock time.time(), in milliseconds (variable now);  *)
(*  - a Python str that the code inspects character by character (prompts, *)
(*    keywords, template names) is a sequence of one-character strings;    *)
(*  - a float that is only multiplied (multipliers, physics constants) is  *)
(*    an exact base-100 fraction [n, k] standing for n / 100^k; a          *)
(*    multiplier parameter is kept in hundredths (0.3 is 30).              *)
(***************************************************************************)
EXTENDS Integers, Sequences, FiniteSets, TLC

(***************************************************************************)
(* Bounds of the model.                                                    *)
(***************************************************************************)
MaxApplied == 2

MaxTime == 31000

StartTime == 1000

MaxIssued == 2

MaxPrompts == 1

MaxMatches == 2

MaxFights == 1

MaxMatchTime == 92000

MaxProjectiles == 1

MaxCooldownTime == 7000

MaxSweepTime == 302000

MaxSchedulerTime == 72000

MaxArsenal == 6

MaxArsenalTime == 73000

MaxHistory == 101

MaxHistoryTime == 2000

MaxDamageTime == 3000

MaxVolley == 2

MaxRise == 2

(***************************************************************************)
(* Strings: str.lower(), str.strip(), the substring test `a in b`.         *)
(***************************************************************************)
UpperCase == << "A","B","C","D","E","F","G","H","I","J","K","L","M",
                "N","O","P","Q","R","S","T","U","V","W","X","Y","Z" >>

LowerCase == << "a","b","c","d","e","f","g","h","i","j","k","l","m",
                "n","o","p","q","r","s","t","u","v","w","x","y","z" >>

LowerChar(c) ==
  IF \E i \in 1..26 : UpperCase[i] = c
    THEN LowerCase[CHOOSE i \in 1..26 : UpperCase[i] = c]
    ELSE c

UpperChar(c) ==
  IF \E i \in 1..26 : LowerCase[i] = c
    THEN UpperCase[CHOOSE i \in 1..26 : LowerCase[i] = c]
    ELSE c

Lower(s) == [i \in 1..Len(s) |-> LowerChar(s[i])]

IsSpace(c) == c = " "

RECURSIVE LStrip(_)
LStrip(s) == IF s # << >> /\ IsSpace(Head(s)) THEN LStrip(Tail(s)) ELSE s

RECURSIVE RStrip(_)
RStrip(s) ==
  IF s # << >> /\ IsSpace(s[Len(s)]) THEN RStrip(SubSeq(s, 1, Len(s) - 1)) ELSE s

Strip(s) == RStrip(LStrip(s))

Contains(s, sub) ==
  \E i \in 1..(Len(s) - Len(sub) + 1) : SubSeq(s, i, i + Len(sub) - 1) = sub

(***************************************************************************)
(* Prompts the players and the scheduler send.                             *)
(***************************************************************************)
IceFloor == << "i","c","e"," ","f","l","o","o","r" >>

IceFloorShouted == << " ","I","c","e"," ","F","L","O","O","R"," " >>

DoubleDamage == << "d","o","u","b","l","e"," ","d","a","m","a","g","e" >>

Chaos == << "c","h","a","o","s" >>

\* "no bounce" is a keyword of No Bounce and holds "bounce", a keyword of the
\* earlier Bouncy World.
NoBounce == << "N","o"," ","B","o","u","n","c","e"," " >>

PhysicsPrompts == {IceFloor, IceFloorShouted, DoubleDamage, Chaos, NoBounce}

\* random_prompts of the scheduler
random_prompts ==
  { << "l","o","w"," ","g","r","a","v","i","t","y" >>,
    << "b","o","u","n","c","y"," ","w","o","r","l","d" >>,
    IceFloor,
    << "s","l","o","w"," ","m","o","t","i","o","n" >>,
    << "h","i","g","h"," ","g","r","a","v","i","t","y" >>,
    << "s","u","p","e","r"," ","s","p","e","e","d" >>,
    << "s","t","i","c","k","y"," ","g","r","o","u","n","d" >> }

FireSword == << "f","i","r","e"," ","s","w","o","r","d" >>

FireSwordShouted == << " ","F","i","r","e"," ","S","W","O","R","D"," " >>

Bomb == << "b","o","m","b" >>

IceSpear == << "i","c","e"," ","s","p","e","a","r" >>

Blank == << " "," " >>

Laser == << "l","a","s","e","r" >>

ForgePrompts == {FireSword, FireSwordShouted, Laser, Blank, IceSpear}

NormalisedForgePrompts == {Lower(Strip(prompt)) : prompt \in ForgePrompts \cup {Bomb, IceSpear}}

\* salts of hash(str) of two runs of the server
HashSeeds == {2, 3, 4}

(***************************************************************************)
(* Exact fractions n / 100^k.                                              *)
(***************************************************************************)
RECURSIVE Norm(_)
Norm(q) ==
  IF q.k > 0 /\ q.n % 100 = 0 THEN Norm([n |-> q.n \div 100, k |-> q.k - 1]) ELSE q

Whole(v) == [n |-> v, k |-> 0]

Hundredths(h) == Norm([n |-> h, k |-> 1])

Times(q, h) == Norm([n |-> q.n * h, k |-> q.k + 1])

RECURSIVE Pow100(_)
Pow100(k) == IF k = 0 THEN 1 ELSE 100 * Pow100(k - 1)

(***************************************************************************)
(* State.                                                                  *)
(***************************************************************************)
VARIABLES
  now,                   \* time.time(), in milliseconds
  active_modifications,  \* PhysicsEngine.active_modifications: match id -> list
  modification_history,  \* PhysicsEngine.modification_history
  applied,               \* history: per match, every modification applied since the last removal
  physics_seen,          \* history: per match, the result of the last calculate_current_physics
                         \*   call, valid while nothing was applied, removed or has expired since
  gemini_model,          \* WeaponGenerator.gemini_model is configured (not None)
  hash_seed,             \* the per-process salt of hash(str)
  cache,                 \* WeaponGenerator.cache: normalised prompt -> cached weapon
  next_weapon_id,        \* stands for the fresh uuid4 of Weapon.generate_id
  generating,            \* per player: the generate_weapon call suspended in the AI call
  issued,                \* history: the weapons generate_weapon has returned, with their requests and times
  matches,               \* MatchManager.matches: match id -> MatchState
  player_match_map,      \* MatchManager.player_match_map: player id -> match id (0: no entry)
  matches_created,       \* how many matches find_or_create_match has created
  next_frame,            \* the time before which the game loop is asleep
  hits,                  \* history: the hits of the last step, in order
  active_connections,    \* ConnectionManager.active_connections: the connected player ids
  sockets,               \* per player: the WebSocket its websocket_endpoint holds ("none": no endpoint runs)
  sent,                  \* history: the messages the last step has put on the sockets, in order
  last                   \* the last operation and what it answered

engineVars == << active_modifications, modification_history, applied, physics_seen >>

forgeVars == << gemini_model, hash_seed, cache, next_weapon_id, generating, issued >>

matchVars == << matches, player_match_map, matches_created, next_frame, hits, sent >>

connVars == << active_connections, sockets >>

vars == << now, active_modifications, modification_history, applied, physics_seen,
           gemini_model, hash_seed, cache, next_weapon_id, generating, issued,
           matches, player_match_map, matches_created, next_frame, hits,
           active_connections, sockets, sent, last >>

Players == {"p1", "p2", "p3"}

MatchIds == 1..MaxMatches

NoReply == [op |-> "none", player_id |-> "", match_id |-> 0, ok |-> FALSE, value |-> 0]

Reply(op, p, m, ok, v) == [op |-> op, player_id |-> p, match_id |-> m, ok |-> ok, value |-> v]

(***************************************************************************)
(* PhysicsEngine (physics_engine.py).                                      *)
(***************************************************************************)
physics_library ==
  <<
    [type |-> "gravity", description |-> "Low Gravity",
     keywords |-> << << "l","o","w"," ","g","r","a","v","i","t","y" >>,
                   << "m","o","o","n"," ","g","r","a","v","i","t","y" >>,
                   << "f","l","o","a","t" >>,
                   << "w","e","i","g","h","t","l","e","s","s" >> >>,
     parameters |-> [multiplier |-> 30], duration |-> 15000],
    [type |-> "gravity", description |-> "High Gravity",
     keywords |-> << << "h","i","g","h"," ","g","r","a","v","i","t","y" >>,
                   << "h","e","a","v","y"," ","g","r","a","v","i","t","y" >>,
                   << "w","e","i","g","h","t" >>,
                   << "p","u","l","l"," ","d","o","w","n" >> >>,
     parameters |-> [multiplier |-> 200], duration |-> 15000],
    [type |-> "gravity", description |-> "Zero Gravity",
     keywords |-> << << "z","e","r","o"," ","g","r","a","v","i","t","y" >>,
                   << "n","o"," ","g","r","a","v","i","t","y" >>,
                   << "s","p","a","c","e" >>,
                   << "f","l","o","a","t"," ","f","r","e","e" >> >>,
     parameters |-> [multiplier |-> 0], duration |-> 10000],
    [type |-> "gravity", description |-> "Reverse Gravity",
     keywords |-> << << "r","e","v","e","r","s","e"," ","g","r","a","v","i","t","y" >>,
                   << "u","p","s","i","d","e"," ","d","o","w","n" >>,
                   << "g","r","a","v","i","t","y"," ","f","l","i","p" >> >>,
     parameters |-> [multiplier |-> -100], duration |-> 12000],
    [type |-> "friction", description |-> "Ice Floor",
     keywords |-> << << "i","c","e" >>,
                   << "s","l","i","p","p","e","r","y" >>,
                   << "s","l","i","d","e" >>,
                   << "s","l","i","c","k" >>,
                   << "s","m","o","o","t","h" >> >>,
     parameters |-> [multiplier |-> 10], duration |-> 20000],
    [type |-> "friction", description |-> "Sticky Ground",
     keywords |-> << << "s","t","i","c","k","y" >>,
                   << "m","u","d" >>,
                   << "t","a","r" >>,
                   << "g","l","u","e" >>,
                   << "s","l","o","w"," ","m","o","v","e","m","e","n","t" >> >>,
     parameters |-> [multiplier |-> 300], duration |-> 15000],
    [type |-> "friction", description |-> "Super Slippery",
     keywords |-> << << "s","u","p","e","r"," ","s","l","i","p","p","e","r","y" >>,
                   << "o","i","l" >>,
                   << "b","a","n","a","n","a"," ","p","e","e","l" >>,
                   << "s","l","i","d","e"," ","e","v","e","r","y","w","h","e","r","e" >> >>,
     parameters |-> [multiplier |-> 5], duration |-> 18000],
    [type |-> "bounce", description |-> "Bouncy World",
     keywords |-> << << "b","o","u","n","c","y" >>,
                   << "r","u","b","b","e","r" >>,
                   << "t","r","a","m","p","o","l","i","n","e" >>,
                   << "b","o","u","n","c","e" >>,
                   << "e","l","a","s","t","i","c" >> >>,
     parameters |-> [multiplier |-> 250], duration |-> 18000],
    [type |-> "bounce", description |-> "Super Bouncy",
     keywords |-> << << "s","u","p","e","r"," ","b","o","u","n","c","y" >>,
                   << "m","e","g","a"," ","b","o","u","n","c","e" >>,
                   << "s","p","r","i","n","g" >>,
                   << "b","o","i","n","g" >> >>,
     parameters |-> [multiplier |-> 400], duration |-> 15000],
    [type |-> "bounce", description |-> "No Bounce",
     keywords |-> << << "n","o"," ","b","o","u","n","c","e" >>,
                   << "d","e","a","d"," ","b","o","u","n","c","e" >>,
                   << "f","l","a","t" >>,
                   << "a","b","s","o","r","b" >> >>,
     parameters |-> [multiplier |-> 0], duration |-> 15000],
    [type |-> "time_scale", description |-> "Slow Motion",
     keywords |-> << << "s","l","o","w"," ","m","o","t","i","o","n" >>,
                   << "b","u","l","l","e","t"," ","t","i","m","e" >>,
                   << "m","a","t","r","i","x" >>,
                   << "s","l","o","w"," ","d","o","w","n" >> >>,
     parameters |-> [scale |-> 50], duration |-> 8000],
    [type |-> "time_scale", description |-> "Super Speed",
     keywords |-> << << "s","u","p","e","r"," ","s","p","e","e","d" >>,
                   << "f","a","s","t"," ","f","o","r","w","a","r","d" >>,
                   << "s","p","e","e","d"," ","u","p" >>,
                   << "q","u","i","c","k" >> >>,
     parameters |-> [scale |-> 150], duration |-> 12000],
    [type |-> "time_scale", description |-> "Hyper Speed",
     keywords |-> << << "h","y","p","e","r"," ","s","p","e","e","d" >>,
                   << "l","i","g","h","t","n","i","n","g"," ","f","a","s","t" >>,
                   << "b","l","u","r" >>,
                   << "s","o","n","i","c" >> >>,
     parameters |-> [scale |-> 200], duration |-> 6000],
    [type |-> "weapon_behavior", description |-> "Double Damage",
     keywords |-> << << "d","o","u","b","l","e"," ","d","a","m","a","g","e" >>,
                   << "p","o","w","e","r"," ","u","p" >>,
                   << "s","t","r","o","n","g","e","r" >>,
                   << "b","o","o","s","t" >> >>,
     parameters |-> [damage_multiplier |-> 200], duration |-> 12000],
    [type |-> "weapon_behavior", description |-> "Rapid Fire",
     keywords |-> << << "r","a","p","i","d"," ","f","i","r","e" >>,
                   << "m","a","c","h","i","n","e"," ","g","u","n" >>,
                   << "s","p","r","a","y" >>,
                   << "b","u","r","s","t" >> >>,
     parameters |-> [cooldown_multiplier |-> 30], duration |-> 10000],
    [type |-> "weapon_behavior", description |-> "Giant Weapons",
     keywords |-> << << "g","i","a","n","t"," ","w","e","a","p","o","n","s" >>,
                   << "b","i","g"," ","w","e","a","p","o","n","s" >>,
                   << "h","u","g","e" >>,
                   << "m","a","s","s","i","v","e" >> >>,
     parameters |-> [size_multiplier |-> 200, damage_multiplier |-> 150], duration |-> 15000],
    [type |-> "weapon_behavior", description |-> "Explosive Weapons",
     keywords |-> << << "e","x","p","l","o","s","i","v","e" >>,
                   << "b","o","o","m" >>,
                   << "e","x","p","l","o","d","e" >>,
                   << "b","l","a","s","t" >> >>,
     parameters |-> [add_explosion |-> 100, explosion_radius |-> 5000], duration |-> 15000],
    [type |-> "weapon_behavior", description |-> "Backwards Weapons",
     keywords |-> << << "b","a","c","k","w","a","r","d","s" >>,
                   << "r","e","v","e","r","s","e" >>,
                   << "o","p","p","o","s","i","t","e" >>,
                   << "w","r","o","n","g"," ","w","a","y" >> >>,
     parameters |-> [direction_multiplier |-> -100], duration |-> 10000]
  >>

is_active_at_inclusive(mod, t) == t <= mod.start_time + mod.duration

\* PhysicsModification.is_active at time t
is_active_at(mod, t) == t < mod.start_time + mod.duration

is_active(mod) == is_active_at(mod, now)

FirstLibraryMatch_last_entry(prompt_lower) ==
  LET hit(i) == \E j \in 1..Len(physics_library[i].keywords) :
                  Contains(prompt_lower, physics_library[i].keywords[j])
  IN  IF \E i \in 1..Len(physics_library) : hit(i)
        THEN CHOOSE i \in 1..Len(physics_library) :
               hit(i) /\ \A h \in (i + 1)..Len(physics_library) : ~hit(h)
        ELSE 0

\* The index of the first library entry one of whose keywords occurs in the
\* prompt, 0 if there is none.
FirstLibraryMatch(prompt_lower) ==
  LET hit(i) == \E j \in 1..Len(physics_library[i].keywords) :
                  Contains(prompt_lower, physics_library[i].keywords[j])
  IN  IF \E i \in 1..Len(physics_library) : hit(i)
        THEN CHOOSE i \in 1..Len(physics_library) :
               hit(i) /\ \A h \in 1..(i - 1) : ~hit(h)
        ELSE 0

\* _generate_random_modification: random.choice over the four kinds, each
\* with its random.uniform draws sampled at the two ends of the ranges
\* (hundredths, milliseconds).
RandomDraws ==
  { [type |-> "gravity",    description |-> "Random Gravity",  key |-> "multiplier",
     draws |-> { << 20, 10000 >>, << 250, 20000 >> }],
    [type |-> "bounce",     description |-> "Random Bounce",   key |-> "multiplier",
     draws |-> { << 50, 12000 >>, << 300, 18000 >> }],
    [type |-> "friction",   description |-> "Random Friction", key |-> "multiplier",
     draws |-> { << 10, 15000 >>, << 200, 25000 >> }],
    [type |-> "time_scale", description |-> "Random Time",     key |-> "scale",
     draws |-> { << 30, 8000 >>, << 180, 15000 >> }] }

_generate_random_modification_none(match_id) == {}

_generate_random_modification(match_id) ==
  UNION { { [type |-> r.type, description |-> r.description,
             parameters |-> IF r.key = "scale" THEN [scale |-> d[1]]
                                               ELSE [multiplier |-> d[1]],
             duration |-> d[2], start_time |-> now, match_id |-> match_id] :
              d \in r.draws } : r \in RandomDraws }

\* The set of modifications _parse_physics_prompt can return.
_parse_physics_prompt(prompt, match_id) ==
  LET prompt_lower == Strip(Lower(prompt))
      i == FirstLibraryMatch(prompt_lower)
  IN  IF i # 0
        THEN { [type |-> physics_library[i].type,
                description |-> physics_library[i].description,
                parameters |-> physics_library[i].parameters,
                duration |-> physics_library[i].duration,
                start_time |-> now, match_id |-> match_id] }
        ELSE _generate_random_modification(match_id)

get_active_modifications_unfiltered_return(match_id) ==
  [returned |-> active_modifications[match_id],
   stored |-> SelectSeq(active_modifications[match_id], is_active)]

\* get_active_modifications: the list it returns and the list it leaves in
\* active_modifications[match_id] (a match without an entry reads as the
\* empty list).
get_active_modifications(match_id) ==
  LET active_mods == SelectSeq(active_modifications[match_id], is_active)
  IN  [returned |-> active_mods, stored |-> active_mods]

BasePhysics ==
  [gravity |-> Whole(800), friction |-> Hundredths(80), restitution |-> Hundredths(30),
   time_scale |-> Whole(1), damage_multiplier |-> Whole(1),
   cooldown_multiplier |-> Whole(1), size_multiplier |-> Whole(1)]

Get(parameters, key, default) ==
  IF key \in DOMAIN parameters THEN parameters[key] ELSE default

ApplyModification_scale_compounds(physics, mod) ==
  CASE mod.type = "gravity" ->
         [physics EXCEPT !.gravity = Times(@, Get(mod.parameters, "multiplier", 100))]
    [] mod.type = "friction" ->
         [physics EXCEPT !.friction = Times(@, Get(mod.parameters, "multiplier", 100))]
    [] mod.type = "bounce" ->
         [physics EXCEPT !.restitution = Times(@, Get(mod.parameters, "multiplier", 100))]
    [] mod.type = "time_scale" ->
         [physics EXCEPT !.time_scale = Times(@, Get(mod.parameters, "scale", 100))]
    [] mod.type = "weapon_behavior" ->
         [physics EXCEPT
            !.damage_multiplier =
               IF "damage_multiplier" \in DOMAIN mod.parameters
                 THEN Times(@, mod.parameters["damage_multiplier"]) ELSE @,
            !.cooldown_multiplier =
               IF "cooldown_multiplier" \in DOMAIN mod.parameters
                 THEN Times(@, mod.parameters["cooldown_multiplier"]) ELSE @,
            !.size_multiplier =
               IF "size_multiplier" \in DOMAIN mod.parameters
                 THEN Times(@, mod.parameters["size_multiplier"]) ELSE @]
    [] OTHER -> physics

\* One turn of the loop of calculate_current_physics.
ApplyModification(physics, mod) ==
  CASE mod.type = "gravity" ->
         [physics EXCEPT !.gravity = Times(@, Get(mod.parameters, "multiplier", 100))]
    [] mod.type = "friction" ->
         [physics EXCEPT !.friction = Times(@, Get(mod.parameters, "multiplier", 100))]
    [] mod.type = "bounce" ->
         [physics EXCEPT !.restitution = Times(@, Get(mod.parameters, "multiplier", 100))]
    [] mod.type = "time_scale" ->
         [physics EXCEPT !.time_scale = Hundredths(Get(mod.parameters, "scale", 100))]
    [] mod.type = "weapon_behavior" ->
         [physics EXCEPT
            !.damage_multiplier =
               IF "damage_multiplier" \in DOMAIN mod.parameters
                 THEN Times(@, mod.parameters["damage_multiplier"]) ELSE @,
            !.cooldown_multiplier =
               IF "cooldown_multiplier" \in DOMAIN mod.parameters
                 THEN Times(@, mod.parameters["cooldown_multiplier"]) ELSE @,
            !.size_multiplier =
               IF "size_multiplier" \in DOMAIN mod.parameters
                 THEN Times(@, mod.parameters["size_multiplier"]) ELSE @]
    [] OTHER -> physics

RECURSIVE ApplyModifications(_, _)
ApplyModifications(physics, mods) ==
  IF mods = << >> THEN physics
  ELSE ApplyModifications(ApplyModification(physics, Head(mods)), Tail(mods))

\* calculate_current_physics: the dict it returns and the list its call of
\* get_active_modifications leaves behind.
calculate_current_physics(match_id) ==
  LET got == get_active_modifications(match_id)
  IN  [physics |-> ApplyModifications(BasePhysics, got.returned), stored |-> got.stored]

NotSeen == [valid |-> FALSE, physics |-> BasePhysics]

\* apply_master_prompt(prompt, match_id), called on the engine.
apply_master_prompt(prompt, match_id) ==
  /\ \E modification \in _parse_physics_prompt(prompt, match_id) :
       /\ active_modifications' =
            [active_modifications EXCEPT ![match_id] = Append(@, modification)]
       /\ modification_history' = Append(modification_history, modification)
       /\ applied' = [applied EXCEPT ![match_id] = Append(@, modification)]
  /\ physics_seen' = [physics_seen EXCEPT ![match_id] = NotSeen]
  /\ last' = Reply("apply_master_prompt", "", match_id, TRUE, 0)
  /\ UNCHANGED << now, forgeVars, matchVars, connVars >>

\* A call of calculate_current_physics(match_id) on the engine.
CalculateCurrentPhysics(match_id) ==
  LET got == calculate_current_physics(match_id)
  IN  /\ active_modifications' = [active_modifications EXCEPT ![match_id] = got.stored]
      /\ physics_seen' = [physics_seen EXCEPT ![match_id] = [valid |-> TRUE, physics |-> got.physics]]
      /\ last' = Reply("calculate_current_physics", "", match_id, TRUE, 0)
      /\ UNCHANGED << now, modification_history, applied, forgeVars, matchVars, connVars >>

\* The length cleanup_expired_modifications cuts the history to.
HistoryLimit == 100

\* cleanup_expired_modifications(): drops the expired modifications of every
\* match and cuts the history to its last HistoryLimit entries. Nothing in
\* the server calls it: no handler, no loop and no scheduler, so it is a
\* step of none of the specifications below.
cleanup_expired_modifications ==
  /\ active_modifications' =
       [m \in MatchIds |-> SelectSeq(active_modifications[m], is_active)]
  /\ modification_history' =
       IF Len(modification_history) > HistoryLimit
         THEN SubSeq(modification_history,
                     Len(modification_history) - HistoryLimit + 1,
                     Len(modification_history))
         ELSE modification_history
  /\ last' = Reply("cleanup_expired_modifications", "", 0, TRUE, 0)
  /\ UNCHANGED << now, applied, physics_seen, forgeVars, matchVars, connVars >>

\* remove_match_modifications(match_id)
remove_match_modifications(match_id) ==
  /\ active_modifications' = [active_modifications EXCEPT ![match_id] = << >>]
  /\ applied' = [applied EXCEPT ![match_id] = << >>]
  /\ physics_seen' = [physics_seen EXCEPT ![match_id] = NotSeen]
  /\ last' = Reply("remove_match_modifications", "", match_id, TRUE, 0)
  /\ UNCHANGED << now, modification_history, forgeVars, matchVars, connVars >>

\* The clock moves on by d milliseconds. A remembered read stops being
\* comparable when a modification it counted expires on the way.
Expires(mod, d) == is_active_at(mod, now) /\ ~is_active_at(mod, now + d)

AdvanceTime(d) ==
  /\ now' = now + d
  /\ physics_seen' =
       [m \in MatchIds |->
          IF \E i \in 1..Len(active_modifications[m]) : Expires(active_modifications[m][i], d)
            THEN NotSeen ELSE physics_seen[m]]
  /\ last' = Reply("advance", "", 0, TRUE, d)
  /\ hits' = << >>
  /\ sent' = << >>
  /\ UNCHANGED << active_modifications, modification_history, applied, forgeVars, connVars,
                  matches, player_match_map, matches_created, next_frame >>

(***************************************************************************)
(* WeaponGenerator (weapon_generator.py).                                  *)
(***************************************************************************)
weapon_templates ==
  <<
    [name |-> << "F","i","r","e"," ","S","w","o","r","d" >>, category |-> "melee",
     keywords |-> << << "f","i","r","e" >>, << "f","l","a","m","e" >>, << "s","w","o","r","d" >>, << "b","l","a","d","e" >>, << "b","u","r","n" >> >>,
     category_hints |-> << << "s","w","o","r","d" >>, << "b","l","a","d","e" >>, << "m","e","l","e","e" >> >>,
     properties |-> [damage |-> 65, speed |-> 70, range |-> 40, ammo |-> 1,
                     cooldown |-> 2000, special_effect |-> "burn_damage"]],
    [name |-> << "I","c","e"," ","S","p","e","a","r" >>, category |-> "projectile",
     keywords |-> << << "i","c","e" >>, << "f","r","o","s","t" >>, << "s","p","e","a","r" >>, << "c","o","l","d" >>, << "f","r","e","e","z","e" >> >>,
     category_hints |-> << << "s","p","e","a","r" >>, << "a","r","r","o","w" >>, << "p","r","o","j","e","c","t","i","l","e" >> >>,
     properties |-> [damage |-> 55, speed |-> 85, range |-> 120, ammo |-> 8,
                     cooldown |-> 1800, special_effect |-> "freeze_target"]],
    [name |-> << "L","i","g","h","t","n","i","n","g"," ","H","a","m","m","e","r" >>, category |-> "melee",
     keywords |-> << << "l","i","g","h","t","n","i","n","g" >>, << "t","h","u","n","d","e","r" >>, << "h","a","m","m","e","r" >>, << "e","l","e","c","t","r","i","c" >>, << "s","h","o","c","k" >> >>,
     category_hints |-> << << "h","a","m","m","e","r" >>, << "m","a","c","e" >>, << "m","e","l","e","e" >> >>,
     properties |-> [damage |-> 75, speed |-> 45, range |-> 50, ammo |-> 1,
                     cooldown |-> 2800, special_effect |-> "area_lightning"]],
    [name |-> << "P","o","i","s","o","n"," ","D","a","g","g","e","r" >>, category |-> "melee",
     keywords |-> << << "p","o","i","s","o","n" >>, << "t","o","x","i","c" >>, << "d","a","g","g","e","r" >>, << "v","e","n","o","m" >>, << "g","r","e","e","n" >> >>,
     category_hints |-> << << "d","a","g","g","e","r" >>, << "k","n","i","f","e" >>, << "b","l","a","d","e" >> >>,
     properties |-> [damage |-> 40, speed |-> 90, range |-> 30, ammo |-> 1,
                     cooldown |-> 1500, special_effect |-> "poison_dot"]],
    [name |-> << "M","a","g","i","c"," ","S","h","i","e","l","d" >>, category |-> "utility",
     keywords |-> << << "s","h","i","e","l","d" >>, << "p","r","o","t","e","c","t" >>, << "d","e","f","e","n","s","e" >>, << "m","a","g","i","c" >>, << "b","a","r","r","i","e","r" >> >>,
     category_hints |-> << << "s","h","i","e","l","d" >>, << "d","e","f","e","n","s","e" >>, << "u","t","i","l","i","t","y" >> >>,
     properties |-> [damage |-> 20, speed |-> 40, range |-> 60, ammo |-> 1,
                     cooldown |-> 3500, special_effect |-> "damage_reduction"]],
    [name |-> << "E","x","p","l","o","s","i","v","e"," ","B","o","m","b" >>, category |-> "area_effect",
     keywords |-> << << "b","o","m","b" >>, << "e","x","p","l","o","s","i","v","e" >>, << "b","o","o","m" >>, << "b","l","a","s","t" >>, << "e","x","p","l","o","d","e" >> >>,
     category_hints |-> << << "b","o","m","b" >>, << "g","r","e","n","a","d","e" >>, << "e","x","p","l","o","s","i","v","e" >> >>,
     properties |-> [damage |-> 60, speed |-> 30, range |-> 80, ammo |-> 3,
                     cooldown |-> 3000, special_effect |-> "area_explosion"]]
  >>

\* str.split(): the words of s, split at white space.
RECURSIVE SplitFrom(_, _, _)
SplitFrom(s, word, words) ==
  IF s = << >> THEN (IF word = << >> THEN words ELSE Append(words, word))
  ELSE IF IsSpace(Head(s))
         THEN SplitFrom(Tail(s), << >>, IF word = << >> THEN words ELSE Append(words, word))
         ELSE SplitFrom(Tail(s), Append(word, Head(s)), words)

Split(s) == SplitFrom(s, << >>, << >>)

\* str.capitalize()
Capitalize(w) ==
  IF w = << >> THEN w ELSE << UpperChar(Head(w)) >> \o Lower(Tail(w))

\* the number of indexes of seq that satisfy Test
CountIn(seq, Test(_)) == Cardinality({i \in 1..Len(seq) : Test(seq[i])})

\* the score _find_best_template gives a template
TemplateScore(template, prompt) ==
  LET prompt_words == Split(Lower(prompt))
      template_name == Lower(template.name)
  IN  3 * CountIn(prompt_words, LAMBDA word : Contains(template_name, word))
    + 2 * CountIn(template.keywords, LAMBDA keyword : Contains(prompt, Lower(keyword)))
    + CountIn(prompt_words,
              LAMBDA word : \E h \in 1..Len(template.category_hints) :
                              template.category_hints[h] = word)

\* _find_best_template: the first template with the greatest score, the
\* first template of all when every score is 0.
BestTemplateIndex(prompt) ==
  LET scores == [i \in 1..Len(weapon_templates) |->
                   TemplateScore(weapon_templates[i], prompt)]
      best == CHOOSE i \in 1..Len(weapon_templates) :
                /\ \A j \in 1..Len(weapon_templates) : scores[j] <= scores[i]
                /\ \A j \in 1..(i - 1) : scores[j] < scores[i]
  IN  IF scores[best] > 0 THEN best ELSE 1

\* BestTemplateIndex of the prompts the model sends, computed once
BestTemplateOfPrompt == [prompt \in NormalisedForgePrompts |-> BestTemplateIndex(prompt)]

_find_best_template(prompt) ==
  weapon_templates[IF prompt \in NormalisedForgePrompts
                     THEN BestTemplateOfPrompt[prompt] ELSE BestTemplateIndex(prompt)]

\* effect_multipliers of _calculate_balance_score, in hundredths
EffectMultiplier(special_effect) ==
  CASE special_effect = "burn_damage" -> 120
    [] special_effect = "freeze_target" -> 115
    [] special_effect = "area_explosion" -> 130
    [] special_effect = "poison_dot" -> 125
    [] special_effect = "area_lightning" -> 125
    [] special_effect = "damage_reduction" -> 80
    [] special_effect = "none" -> 100
    [] OTHER -> 100

Min(a, b) == IF a < b THEN a ELSE b

Max(a, b) == IF a > b THEN a ELSE b

\* one point of balance score, in the unit the model keeps scores in
ScorePoint == 100000

\* _calculate_balance_score, in 1/ScorePoint points: power_score * 1000 is
\* 400 damage + 300 speed + 100 range + 2 (5000 - cooldown) hundredths.
_calculate_balance_score(properties) ==
  LET power_score == 400 * properties.damage + 300 * properties.speed
                     + 100 * properties.range + 2 * (5000 - properties.cooldown)
      balance_score == power_score * EffectMultiplier(properties.special_effect)
  IN  Min(100 * ScorePoint, Max(0, balance_score))

\* int(x) of a float: truncation towards zero of num / den, den > 0
IntDiv(num, den) == IF num >= 0 THEN num \div den ELSE -((-num) \div den)

_apply_balance_nerf(properties) ==
  [properties EXCEPT !.damage = IntDiv(@ * 8, 10), !.cooldown = IntDiv(@ * 12, 10)]

_generate_weapon_name(prompt) ==
  LET words == Split(Strip(prompt))
  IN  IF Len(words) = 1 THEN Capitalize(words[1])
      ELSE Capitalize(words[1]) \o << " " >> \o Capitalize(words[2])

\* hash(prompt) % 20, for the salt of this process
RECURSIVE CharSum(_)
CharSum(s) ==
  IF s = << >> THEN 0
  ELSE (IF \E i \in 1..26 : LowerCase[i] = Head(s)
          THEN CHOOSE i \in 1..26 : LowerCase[i] = Head(s) ELSE 0) + CharSum(Tail(s))

HashMod20(prompt) == (hash_seed + CharSum(prompt)) % 20

_create_emergency_weapon(prompt, player_id) ==
  [id |-> next_weapon_id,
   name |-> << "B","a","s","i","c"," " >> \o
            (IF prompt # << >> THEN Capitalize(Split(prompt)[1])
                               ELSE << "W","e","a","p","o","n" >>),
   category |-> "projectile",
   properties |-> [damage |-> 50, speed |-> 60, range |-> 100, ammo |-> 10,
                   cooldown |-> 2000, special_effect |-> "none"],
   generated_at |-> now, balance_score |-> 50 * ScorePoint, player_id |-> player_id]

_generate_from_template_surfacing(prompt, player_id, raises) ==
  LET best_template == _find_best_template(prompt)
      variation == HashMod20(prompt) - 10
      properties ==
        [best_template.properties EXCEPT
           !.damage = Max(15, Min(85, @ + variation)),
           !.speed = Max(20, Min(95, @ + variation))]
  IN  IF raises THEN [id |-> 0, name |-> << >>, category |-> "none",
                      properties |-> best_template.properties,
                      generated_at |-> 0, balance_score |-> 0, player_id |-> ""]
      ELSE [id |-> next_weapon_id,
            name |-> _generate_weapon_name(prompt),
            category |-> best_template.category,
            properties |-> properties,
            generated_at |-> now,
            balance_score |-> _calculate_balance_score(properties),
            player_id |-> player_id]

\* _generate_from_template; raises says that the body raised an exception,
\* which generate_weapon answers with the emergency weapon, without caching it
_generate_from_template(prompt, player_id, raises) ==
  LET best_template == _find_best_template(prompt)
      variation == HashMod20(prompt) - 10
      properties ==
        [best_template.properties EXCEPT
           !.damage = Max(15, Min(85, @ + variation)),
           !.speed = Max(20, Min(95, @ + variation))]
  IN  IF raises THEN _create_emergency_weapon(prompt, player_id)
      ELSE [id |-> next_weapon_id,
            name |-> _generate_weapon_name(prompt),
            category |-> best_template.category,
            properties |-> properties,
            generated_at |-> now,
            balance_score |-> _calculate_balance_score(properties),
            player_id |-> player_id]

WeaponCategories == << "projectile", "melee", "area_effect", "utility", "magic" >>

\* _generate_with_ai from the parsed reply on: properties_data is the JSON
\* object the collaborator returned.
WeaponFromAI(prompt, player_id, properties_data) ==
  LET clamped ==
        [damage |-> Max(15, Min(85, Get(properties_data, "damage", 50))),
         speed |-> Max(20, Min(95, Get(properties_data, "speed", 60))),
         range |-> Max(30, Min(180, Get(properties_data, "range", 100))),
         ammo |-> Max(3, Min(25, Get(properties_data, "ammo", 10))),
         cooldown |-> Max(1500, Min(4000, Get(properties_data, "cooldown", 2000))),
         special_effect |-> Get(properties_data, "special_effect", "none")]
      category_str == Get(properties_data, "category", "projectile")
      category == IF \E i \in 1..5 : WeaponCategories[i] = category_str
                    THEN category_str ELSE "projectile"
      properties == IF _calculate_balance_score(clamped) > 80 * ScorePoint
                      THEN _apply_balance_nerf(clamped) ELSE clamped
  IN  [id |-> next_weapon_id,
       name |-> _generate_weapon_name(prompt),
       category |-> category,
       properties |-> properties,
       generated_at |-> now,
       balance_score |-> _calculate_balance_score(properties),
       player_id |-> player_id]

\* What the collaborator can answer to one generate_content_async call: no
\* usable answer (no model, an error, unparsable text), nothing within the
\* 2.5 s of wait_for, or a JSON object.
AIReplies ==
  { [damage |-> 85, speed |-> 95, range |-> 180, ammo |-> 25, cooldown |-> 4000,
     special_effect |-> "area_explosion", category |-> "area_effect"],
    [damage |-> 21, speed |-> 95, range |-> 180, ammo |-> 25, cooldown |-> 1500,
     special_effect |-> "area_explosion", category |-> "magic"],
    [damage |-> 500, speed |-> 0, range |-> 10, ammo |-> 0, cooldown |-> 100,
     special_effect |-> "stun", category |-> "cannon"] }

NoData == [x \in {} |-> 0]

AIOutcomes ==
  { [kind |-> k, data |-> NoData] : k \in {"none", "timeout"} }
    \cup { [kind |-> "reply", data |-> r] : r \in AIReplies }

Idle == [busy |-> FALSE, prompt |-> << >>, match_id |-> 0, started |-> 0]

NoWeapon ==
  [id |-> 0, name |-> << >>, category |-> "none",
   properties |-> [damage |-> 0, speed |-> 0, range |-> 0, ammo |-> 0,
                   cooldown |-> 0, special_effect |-> "none"],
   generated_at |-> 0, balance_score |-> 0, player_id |-> ""]

Cached(cache_key) == {e \in cache : e.key = cache_key}

\* generate_weapon up to its first suspension: "invalid" (returns None),
\* "hit" (returns the cached weapon re-keyed to the player) or "miss" (goes on
\* to the AI call). md5 is taken to be injective: the key is the prompt.
generate_weapon_begin(prompt, player_id) ==
  LET cache_key == Lower(Strip(prompt))
  IN  IF Len(Strip(prompt)) = 0
        THEN [result |-> "invalid", key |-> cache_key, weapon |-> NoWeapon]
      ELSE IF Cached(cache_key) # {}
        THEN [result |-> "hit", key |-> cache_key,
              weapon |-> [(CHOOSE e \in Cached(cache_key) : TRUE).weapon EXCEPT
                            !.id = next_weapon_id, !.generated_at = now,
                            !.player_id = player_id]]
      ELSE [result |-> "miss", key |-> cache_key, weapon |-> NoWeapon]

\* generate_weapon from the return of the AI call on: the weapon it returns.
generate_weapon_end(prompt, player_id, ai, raises) ==
  IF gemini_model /\ ai.kind = "reply"
    THEN WeaponFromAI(prompt, player_id, ai.data)
    ELSE _generate_from_template(prompt, player_id, raises)

\* self.cache[cache_key] = cache_weapon
CacheStore(cache_key, weapon) ==
  (cache \ Cached(cache_key))
    \cup {[key |-> cache_key,
           weapon |-> [weapon EXCEPT !.id = 0, !.player_id = "template"]]}

\* A call of generate_weapon on the generator, up to its return or its
\* suspension in the AI call.
GenerateWeaponCall(player_id, prompt) ==
  LET begin == generate_weapon_begin(prompt, player_id)
  IN  /\ ~generating[player_id].busy
      /\ Cardinality(issued) < MaxIssued
      /\ CASE begin.result = "invalid" ->
                /\ last' = Reply("generate_weapon", player_id, 0, FALSE, 0)
                /\ UNCHANGED << cache, next_weapon_id, generating, issued >>
           [] begin.result = "hit" ->
                /\ issued' = issued \cup {[key |-> begin.key, player_id |-> player_id,
                                              weapon |-> begin.weapon, at |-> now]}
                /\ next_weapon_id' = next_weapon_id + 1
                /\ last' = Reply("generate_weapon", player_id, 0, TRUE, begin.weapon.id)
                /\ UNCHANGED << cache, generating >>
           [] begin.result = "miss" ->
                /\ generating' = [generating EXCEPT ![player_id] =
                                    [busy |-> TRUE, prompt |-> begin.key,
                                     match_id |-> 0, started |-> now]]
                /\ last' = Reply("generate_weapon_wait", player_id, 0, TRUE, 0)
                /\ UNCHANGED << cache, next_weapon_id, issued >>
      /\ UNCHANGED << now, engineVars, gemini_model, hash_seed, matchVars, connVars >>

\* The suspended call resumes: AI weapon or template fallback, cache, return.
GenerateWeaponReturn(player_id, ai, raises) ==
  LET prompt == generating[player_id].prompt
      weapon == generate_weapon_end(prompt, player_id, ai, raises)
  IN  /\ generating[player_id].busy
      /\ gemini_model \/ ai.kind = "none"
      /\ cache' = IF raises THEN cache ELSE CacheStore(prompt, weapon)
      /\ issued' = issued \cup {[key |-> prompt, player_id |-> player_id, weapon |-> weapon,
                               at |-> now]}
      /\ next_weapon_id' = next_weapon_id + 1
      /\ generating' = [generating EXCEPT ![player_id] = Idle]
      /\ last' = Reply("generate_weapon", player_id, 0, TRUE, weapon.id)
      /\ UNCHANGED << now, engineVars, gemini_model, hash_seed, matchVars, connVars >>

(***************************************************************************)
(* ConnectionManager (connection_manager.py).                              *)
(*                                                                         *)
(* A socket is "open" from the accept of its endpoint on, and "broken"     *)
(* once its peer is gone: sending on a broken socket raises, and the       *)
(* endpoint's receive raises WebSocketDisconnect.                          *)
(***************************************************************************)
\* ConnectionManager.disconnect: the connections it leaves
disconnect(connections, player_id) == connections \ {player_id}

\* send_to_player: what it returns and the connections it leaves
send_to_player(connections, player_id) ==
  IF player_id \notin connections
    THEN [ok |-> FALSE, active_connections |-> connections]
  ELSE IF sockets[player_id] = "broken"
    THEN [ok |-> FALSE, active_connections |-> disconnect(connections, player_id)]
  ELSE [ok |-> TRUE, active_connections |-> connections]

\* for player in players: await connection_manager.send_to_player(player.id, ...)
RECURSIVE SendToPlayers(_, _)
SendToPlayers(connections, players) ==
  IF players = << >> THEN connections
  ELSE SendToPlayers(send_to_player(connections, Head(players).id).active_connections,
                     Tail(players))

\* A GameMessage on its way to a player
Message(type, player_id, match_id) == [type |-> type, to |-> player_id, match_id |-> match_id]

\* One message of this type for each of the players, in their order
ToPlayers(type, match_id, players) ==
  [i \in 1..Len(players) |-> Message(type, players[i].id, match_id)]

\* The messages of a list that send_to_player has put on a socket, when they
\* are sent one after the other.
RECURSIVE Delivered(_, _)
Delivered(connections, messages) ==
  IF messages = << >> THEN << >>
  ELSE LET tried == send_to_player(connections, Head(messages).to)
       IN  (IF tried.ok THEN << Head(messages) >> ELSE << >>)
             \o Delivered(tried.active_connections, Tail(messages))

(***************************************************************************)
(* Shared types (game_types.py) and MatchManager (match_manager.py).       *)
(*                                                                         *)
(* Positions are kept in 1/3600 pixel and velocities in 1/60 pixel per     *)
(* second: one frame (dt = 1/60) adds the velocity to the position and the *)
(* gravity to the vertical velocity.  Products with a fractional           *)
(* multiplier are truncated to that resolution; distances are taken at a   *)
(* resolution of 1/10 pixel.  Times are milliseconds.                      *)
(*                                                                         *)
(* Each player id has one connection, whose messages the server handles    *)
(* one after the other; matches are created in different milliseconds, so  *)
(* that their ids differ (the model numbers them in creation order).       *)
(***************************************************************************)
\* dt = 1/60
FPS == 60

\* the game loop sleeps for what is left of 1/60 s: milliseconds between two frames
FrameMs == 1000 \div FPS

\* the frames a player holds an input for: four seconds
FramesHeld == 4 * FPS

\* the input_data of the player_input messages
Inputs == { [left |-> FALSE, right |-> TRUE, jump |-> FALSE] }

\* position units in one pixel
PX == FPS * FPS

arena_width == 1200

arena_height == 600

Position(x, y) == [x |-> x * PX, y |-> y * PX]

PlayerState(id, position) ==
  [id |-> id, health |-> 100, position |-> position, velocity |-> [x |-> 0, y |-> 0],
   weapons |-> << >>, weapon_cooldown |-> 0, is_alive |-> TRUE, kills |-> 0, deaths |-> 0]

PhysicsState ==
  [gravity |-> Whole(800), friction |-> Hundredths(80), restitution |-> Hundredths(30),
   time_scale |-> Whole(1), active_modifications |-> << >>]

\* No entry in MatchManager.matches; None is 0 for the times and "" for the winner.
NoMatch ==
  [exists |-> FALSE, status |-> "none", players |-> << >>, projectiles |-> << >>,
   physics |-> PhysicsState, start_time |-> 0, end_time |-> 0, winner_id |-> "",
   last_master_prompt |-> 0]

MatchState(players) ==
  [NoMatch EXCEPT !.exists = TRUE, !.status = "waiting", !.players = players]

\* PhysicsState.apply_modifications
apply_modifications(physics) ==
  LET RECURSIVE Fold(_, _)
      Fold(state, mods) ==
        IF mods = << >> THEN state
        ELSE LET mod == Head(mods)
                 next ==
                   IF ~is_active(mod) THEN state
                   ELSE CASE mod.type = "gravity" ->
                               [state EXCEPT !.gravity = Times(@, Get(mod.parameters, "multiplier", 100))]
                          [] mod.type = "friction" ->
                               [state EXCEPT !.friction = Times(@, Get(mod.parameters, "multiplier", 100))]
                          [] mod.type = "bounce" ->
                               [state EXCEPT !.restitution = Times(@, Get(mod.parameters, "multiplier", 100))]
                          [] mod.type = "time_scale" ->
                               [state EXCEPT !.time_scale = Hundredths(Get(mod.parameters, "scale", 100))]
                          [] OTHER -> state
             IN  Fold(next, Tail(mods))
  IN  Fold([physics EXCEPT !.gravity = Whole(800), !.friction = Hundredths(80),
                           !.restitution = Hundredths(30), !.time_scale = Whole(1)],
           physics.active_modifications)

\* The index of player_id in the player list, 0 if it is not there.
PlayerIndex(players, player_id) ==
  IF \E i \in 1..Len(players) : players[i].id = player_id
    THEN CHOOSE i \in 1..Len(players) :
           players[i].id = player_id /\ \A h \in 1..(i - 1) : players[h].id # player_id
    ELSE 0

\* get_player_state, as the index of the player in the match's list
get_player_state(ms, match_id, player_id) ==
  IF match_id \in MatchIds /\ ms[match_id].exists
    THEN PlayerIndex(ms[match_id].players, player_id) ELSE 0

AlivePlayers(players) == SelectSeq(players, LAMBDA p : p.is_alive)

\* MatchState.get_duration
get_duration(match) ==
  IF match.start_time # 0
    THEN (IF match.end_time # 0 THEN match.end_time ELSE now) - match.start_time
    ELSE 0

is_finished_inclusive(match) ==
  \/ Len(AlivePlayers(match.players)) <= 1
  \/ get_duration(match) >= 90000
  \/ match.status = "finished"

is_finished_without_limit(match) ==
  \/ Len(AlivePlayers(match.players)) <= 1
  \/ match.status = "finished"

\* MatchState.is_finished
is_finished(match) ==
  \/ Len(AlivePlayers(match.players)) <= 1
  \/ get_duration(match) > 90000
  \/ match.status = "finished"

get_winner_last_max(match) ==
  LET alive_players == AlivePlayers(match.players)
      kills(p) == p.kills
      health(p) == p.health
      LastMax(players, key(_)) ==
        players[CHOOSE i \in 1..Len(players) :
                  /\ \A j \in 1..Len(players) : key(players[j]) <= key(players[i])
                  /\ \A h \in (i + 1)..Len(players) : key(players[h]) < key(players[i])]
  IN  IF Len(alive_players) = 1 THEN alive_players[1].id
      ELSE IF Len(alive_players) = 0
        THEN (IF match.players # << >> THEN LastMax(match.players, kills).id ELSE "")
      ELSE IF get_duration(match) > 90000 THEN LastMax(match.players, health).id
      ELSE ""

\* MatchState.get_winner: the winner's id, "" for None
\* max(players, key) is the first player whose key is the largest.
get_winner(match) ==
  LET alive_players == AlivePlayers(match.players)
      kills(p) == p.kills
      health(p) == p.health
      FirstMax(players, key(_)) ==
        players[CHOOSE i \in 1..Len(players) :
                  /\ \A j \in 1..Len(players) : key(players[j]) <= key(players[i])
                  /\ \A h \in 1..(i - 1) : key(players[h]) < key(players[i])]
  IN  IF Len(alive_players) = 1 THEN alive_players[1].id
      ELSE IF Len(alive_players) = 0
        THEN (IF match.players # << >> THEN FirstMax(match.players, kills).id ELSE "")
      ELSE IF get_duration(match) > 90000 THEN FirstMax(match.players, health).id
      ELSE ""

find_or_create_match_any_match(player_id) ==
  LET mapped == player_match_map[player_id]
      open == {m \in MatchIds : matches[m].exists}
      first_open == CHOOSE m \in open : \A o \in open : m <= o
      match_id == matches_created + 1
  IN  IF mapped # 0 /\ matches[mapped].exists
        THEN [match_id |-> mapped, created |-> FALSE, matches |-> matches,
              player_match_map |-> player_match_map]
      ELSE IF open # {}
        THEN [match_id |-> first_open, created |-> FALSE,
              matches |-> [matches EXCEPT ![first_open].players =
                             Append(@, PlayerState(player_id, Position(1000, 500)))],
              player_match_map |-> [player_match_map EXCEPT ![player_id] = first_open]]
      ELSE [match_id |-> match_id, created |-> TRUE,
            matches |-> [m \in MatchIds |->
                           IF m = match_id
                             THEN MatchState(<< PlayerState(player_id, Position(200, 500)) >>)
                             ELSE matches[m]],
            player_match_map |-> [player_match_map EXCEPT ![player_id] = match_id]]

find_or_create_match_unchecked(player_id) ==
  LET open == {m \in MatchIds : /\ matches[m].exists
                                /\ matches[m].status = "waiting"
                                /\ Len(matches[m].players) < 2}
      first_open == CHOOSE m \in open : \A o \in open : m <= o
      match_id == matches_created + 1
  IN  IF open # {}
        THEN [match_id |-> first_open, created |-> FALSE,
              matches |-> [matches EXCEPT ![first_open].players =
                             Append(@, PlayerState(player_id, Position(1000, 500)))],
              player_match_map |-> [player_match_map EXCEPT ![player_id] = first_open]]
      ELSE [match_id |-> match_id, created |-> TRUE,
            matches |-> [m \in MatchIds |->
                           IF m = match_id
                             THEN MatchState(<< PlayerState(player_id, Position(200, 500)) >>)
                             ELSE matches[m]],
            player_match_map |-> [player_match_map EXCEPT ![player_id] = match_id]]

\* find_or_create_match: the match it returns and the registry it leaves.
\* self.matches is iterated in insertion order, the order of creation.
find_or_create_match(player_id) ==
  LET mapped == player_match_map[player_id]
      open == {m \in MatchIds : /\ matches[m].exists
                                /\ matches[m].status = "waiting"
                                /\ Len(matches[m].players) < 2}
      first_open == CHOOSE m \in open : \A o \in open : m <= o
      match_id == matches_created + 1
  IN  IF mapped # 0 /\ matches[mapped].exists
        THEN [match_id |-> mapped, created |-> FALSE, matches |-> matches,
              player_match_map |-> player_match_map]
      ELSE IF open # {}
        THEN [match_id |-> first_open, created |-> FALSE,
              matches |-> [matches EXCEPT ![first_open].players =
                             Append(@, PlayerState(player_id, Position(1000, 500)))],
              player_match_map |-> [player_match_map EXCEPT ![player_id] = first_open]]
      ELSE [match_id |-> match_id, created |-> TRUE,
            matches |-> [m \in MatchIds |->
                           IF m = match_id
                             THEN MatchState(<< PlayerState(player_id, Position(200, 500)) >>)
                             ELSE matches[m]],
            player_match_map |-> [player_match_map EXCEPT ![player_id] = match_id]]

start_match_unguarded(ms, match_id) ==
  LET match == ms[match_id]
      reset(i) ==
        [match.players[i] EXCEPT
           !.position = IF i = 1 THEN Position(200, 500)
                        ELSE IF i = 2 THEN Position(1000, 500) ELSE @,
           !.health = 100, !.is_alive = TRUE, !.weapons = << >>, !.weapon_cooldown = 0]
  IN  IF ~match.exists
        THEN [ok |-> FALSE, matches |-> ms]
        ELSE [ok |-> TRUE,
              matches |-> [ms EXCEPT ![match_id] =
                             [match EXCEPT !.status = "active", !.start_time = now,
                                           !.last_master_prompt = now,
                                           !.players = [i \in 1..Len(match.players) |-> reset(i)]]]]

start_match_keeps_positions(ms, match_id) ==
  LET match == ms[match_id]
      reset(i) ==
        [match.players[i] EXCEPT
           !.health = 100, !.is_alive = TRUE, !.weapons = << >>, !.weapon_cooldown = 0]
  IN  IF ~match.exists \/ Len(match.players) < 2
        THEN [ok |-> FALSE, matches |-> ms]
        ELSE [ok |-> TRUE,
              matches |-> [ms EXCEPT ![match_id] =
                             [match EXCEPT !.status = "active", !.start_time = now,
                                           !.last_master_prompt = now,
                                           !.players = [i \in 1..Len(match.players) |-> reset(i)]]]]

\* start_match on the registry ms: what it returns and the registry it leaves
start_match(ms, match_id) ==
  LET match == ms[match_id]
      reset(i) ==
        [match.players[i] EXCEPT
           !.position = IF i = 1 THEN Position(200, 500)
                        ELSE IF i = 2 THEN Position(1000, 500) ELSE @,
           !.health = 100, !.is_alive = TRUE, !.weapons = << >>, !.weapon_cooldown = 0]
  IN  IF ~match.exists \/ Len(match.players) < 2
        THEN [ok |-> FALSE, matches |-> ms]
        ELSE [ok |-> TRUE,
              matches |-> [ms EXCEPT ![match_id] =
                             [match EXCEPT !.status = "active", !.start_time = now,
                                           !.last_master_prompt = now,
                                           !.players = [i \in 1..Len(match.players) |-> reset(i)]]]]

\* A float product value * q with q = n / 100^k, truncated to a whole unit
Scaled(value, q) == IntDiv(value * q.n, Pow100(q.k))

\* Projectile.is_expired: time.time() > expires_at
is_expired(projectile) == now > projectile.expires_at

\* _update_projectiles: the projectile list it leaves
_update_projectiles(match, current_physics) ==
  LET gravity == Scaled(1, current_physics.gravity)
      time_scale == current_physics.time_scale
      moved(projectile) ==
        LET vy == projectile.velocity.y + gravity
        IN  [projectile EXCEPT
               !.velocity.y = vy,
               !.position.x = @ + Scaled(projectile.velocity.x, time_scale),
               !.position.y = @ + Scaled(vy, time_scale)]
      in_bounds(projectile) ==
        /\ 0 <= projectile.position.x /\ projectile.position.x <= arena_width * PX
        /\ 0 <= projectile.position.y /\ projectile.position.y <= arena_height * PX
      RECURSIVE Update(_)
      Update(projectiles) ==
        IF projectiles = << >> THEN << >>
        ELSE LET projectile == Head(projectiles)
             IN  IF ~is_expired(projectile) /\ in_bounds(moved(projectile))
                   THEN << moved(projectile) >> \o Update(Tail(projectiles))
                   ELSE Update(Tail(projectiles))
  IN  Update(match.projectiles)

\* _check_projectile_player_collision: the player is 32x32, the projectile 8x8
_check_projectile_player_collision(projectile, player) ==
  /\ projectile.position.x + 4 * PX > player.position.x - 16 * PX
  /\ projectile.position.x - 4 * PX < player.position.x + 16 * PX
  /\ projectile.position.y + 4 * PX > player.position.y - 16 * PX
  /\ projectile.position.y - 4 * PX < player.position.y + 16 * PX

Hit(kind, match_id, shooter, target, before, after) ==
  [kind |-> kind, match_id |-> match_id, shooter |-> shooter, target |-> target,
   before |-> before, after |-> after]

_apply_damage_unclamped(players, projectile, target, current_physics) ==
  LET damage_multiplier == current_physics.damage_multiplier
      final_damage == Scaled(projectile.damage, damage_multiplier)
      health == players[target].health - final_damage
      shooter == PlayerIndex(players, projectile.player_id)
      hurt == [players EXCEPT ![target].health = health]
      dead == [hurt EXCEPT ![target].is_alive = FALSE, ![target].deaths = @ + 1]
  IN  IF health <= 0
        THEN (IF shooter # 0 THEN [dead EXCEPT ![shooter].kills = @ + 1] ELSE dead)
        ELSE hurt

\* _apply_damage to the player at index target: the player list it leaves
_apply_damage(players, projectile, target, current_physics) ==
  LET damage_multiplier == current_physics.damage_multiplier
      final_damage == Scaled(projectile.damage, damage_multiplier)
      health == Max(0, players[target].health - final_damage)
      shooter == PlayerIndex(players, projectile.player_id)
      hurt == [players EXCEPT ![target].health = health]
      dead == [hurt EXCEPT ![target].is_alive = FALSE, ![target].deaths = @ + 1]
  IN  IF health <= 0
        THEN (IF shooter # 0 THEN [dead EXCEPT ![shooter].kills = @ + 1] ELSE dead)
        ELSE hurt

\* Remove the first element of the list that equals projectile (list.remove).
RemoveFirst(projectiles, projectile) ==
  LET i == CHOOSE i \in 1..Len(projectiles) :
             projectiles[i] = projectile /\ \A h \in 1..(i - 1) : projectiles[h] # projectile
  IN  IF \E j \in 1..Len(projectiles) : projectiles[j] = projectile
        THEN SubSeq(projectiles, 1, i - 1) \o SubSeq(projectiles, i + 1, Len(projectiles))
        ELSE projectiles

_check_collisions_keeps_projectile(match_id, match, current_physics) ==
  LET FirstTarget(players, projectile) ==
        LET struck(i) == /\ players[i].id # projectile.player_id
                         /\ players[i].is_alive
                         /\ _check_projectile_player_collision(projectile, players[i])
        IN  IF \E i \in 1..Len(players) : struck(i)
              THEN CHOOSE i \in 1..Len(players) : struck(i) /\ \A h \in 1..(i - 1) : ~struck(h)
              ELSE 0
      RECURSIVE Check(_, _)
      Check(todo, state) ==
        IF todo = << >> THEN state
        ELSE LET projectile == Head(todo)
                 target == FirstTarget(state.players, projectile)
                 players == _apply_damage(state.players, projectile, target, current_physics)
             IN  IF target = 0 THEN Check(Tail(todo), state)
                 ELSE Check(Tail(todo),
                            [players |-> players,
                             projectiles |-> state.projectiles,
                             hits |-> Append(state.hits,
                                             Hit("projectile", match_id, projectile.player_id,
                                                 state.players[target].id,
                                                 state.players[target].health,
                                                 players[target].health))])
  IN  Check(match.projectiles,
            [players |-> match.players, projectiles |-> match.projectiles, hits |-> << >>])

\* _check_collisions: the players, the projectiles and the hits, in order
_check_collisions(match_id, match, current_physics) ==
  LET FirstTarget(players, projectile) ==
        LET struck(i) == /\ players[i].id # projectile.player_id
                         /\ players[i].is_alive
                         /\ _check_projectile_player_collision(projectile, players[i])
        IN  IF \E i \in 1..Len(players) : struck(i)
              THEN CHOOSE i \in 1..Len(players) : struck(i) /\ \A h \in 1..(i - 1) : ~struck(h)
              ELSE 0
      RECURSIVE Check(_, _)
      Check(todo, state) ==
        IF todo = << >> THEN state
        ELSE LET projectile == Head(todo)
                 target == FirstTarget(state.players, projectile)
                 players == _apply_damage(state.players, projectile, target, current_physics)
             IN  IF target = 0 THEN Check(Tail(todo), state)
                 ELSE Check(Tail(todo),
                            [players |-> players,
                             projectiles |-> RemoveFirst(state.projectiles, projectile),
                             hits |-> Append(state.hits,
                                             Hit("projectile", match_id, projectile.player_id,
                                                 state.players[target].id,
                                                 state.players[target].health,
                                                 players[target].health))])
  IN  Check(match.projectiles,
            [players |-> match.players, projectiles |-> match.projectiles, hits |-> << >>])

\* _end_match, on the match object
_end_match(match) ==
  LET ended == [match EXCEPT !.status = "finished", !.end_time = now]
      winner == get_winner(ended)
  IN  IF winner # "" THEN [ended EXCEPT !.winner_id = winner] ELSE ended

UpdateMatch_any_status(match_id) ==
  LET match == matches[match_id]
      current_physics == calculate_current_physics(match_id).physics
      flown == [match EXCEPT !.projectiles = _update_projectiles(match, current_physics)]
      checked == _check_collisions(match_id, flown, current_physics)
      fought == [flown EXCEPT !.players = checked.players,
                              !.projectiles = checked.projectiles]
      untouched == [match |-> match, read |-> FALSE, removed |-> FALSE,
                    unmapped |-> {}, hits |-> << >>]
      cleaned == [match |-> NoMatch, read |-> FALSE, removed |-> TRUE,
                  unmapped |-> {match.players[i].id : i \in 1..Len(match.players)},
                  hits |-> << >>]
  IN  IF ~match.exists THEN untouched
      ELSE IF match.status \in {"active", "finished"}
        THEN (IF is_finished(fought)
                THEN [match |-> _end_match(fought), read |-> TRUE, removed |-> TRUE,
                      unmapped |-> {}, hits |-> checked.hits]
                ELSE [match |-> fought, read |-> TRUE, removed |-> FALSE,
                      unmapped |-> {}, hits |-> checked.hits])
      ELSE IF match.status = "finished"
        THEN (IF match.end_time # 0 /\ now - match.end_time > 300000 THEN cleaned ELSE untouched)
      ELSE IF match.status = "waiting"
        THEN (IF now - (IF match.start_time # 0 THEN match.start_time ELSE now) > 120000
                THEN cleaned ELSE untouched)
      ELSE untouched

\* update_matches with a _cleanup_match that leaves the player mappings
UpdateMatch_keeps_mappings(match_id) ==
  LET match == matches[match_id]
      current_physics == calculate_current_physics(match_id).physics
      flown == [match EXCEPT !.projectiles = _update_projectiles(match, current_physics)]
      checked == _check_collisions(match_id, flown, current_physics)
      fought == [flown EXCEPT !.players = checked.players,
                              !.projectiles = checked.projectiles]
      untouched == [match |-> match, read |-> FALSE, removed |-> FALSE,
                    unmapped |-> {}, hits |-> << >>]
      cleaned == [match |-> NoMatch, read |-> FALSE, removed |-> TRUE,
                  unmapped |-> {},
                  hits |-> << >>]
  IN  IF ~match.exists THEN untouched
      ELSE IF match.status = "active"
        THEN (IF is_finished(fought)
                THEN [match |-> _end_match(fought), read |-> TRUE, removed |-> TRUE,
                      unmapped |-> {}, hits |-> checked.hits]
                ELSE [match |-> fought, read |-> TRUE, removed |-> FALSE,
                      unmapped |-> {}, hits |-> checked.hits])
      ELSE IF match.status = "finished"
        THEN (IF match.end_time # 0 /\ now - match.end_time > 300000 THEN cleaned ELSE untouched)
      ELSE IF match.status = "waiting"
        THEN (IF now - (IF match.start_time # 0 THEN match.start_time ELSE now) > 120000
                THEN cleaned ELSE untouched)
      ELSE untouched

\* One turn of the loop of update_matches, for the match with this id: the
\* match it leaves (NoMatch when it was cleaned up), whether the physics
\* engine was read, whether the match's modifications were removed, the
\* players whose mapping was deleted, and the hits.
UpdateMatch(match_id) ==
  LET match == matches[match_id]
      current_physics == calculate_current_physics(match_id).physics
      flown == [match EXCEPT !.projectiles = _update_projectiles(match, current_physics)]
      checked == _check_collisions(match_id, flown, current_physics)
      fought == [flown EXCEPT !.players = checked.players,
                              !.projectiles = checked.projectiles]
      untouched == [match |-> match, read |-> FALSE, removed |-> FALSE,
                    unmapped |-> {}, hits |-> << >>]
      cleaned == [match |-> NoMatch, read |-> FALSE, removed |-> TRUE,
                  unmapped |-> {match.players[i].id : i \in 1..Len(match.players)},
                  hits |-> << >>]
  IN  IF ~match.exists THEN untouched
      ELSE IF match.status = "active"
        THEN (IF is_finished(fought)
                THEN [match |-> _end_match(fought), read |-> TRUE, removed |-> TRUE,
                      unmapped |-> {}, hits |-> checked.hits]
                ELSE [match |-> fought, read |-> TRUE, removed |-> FALSE,
                      unmapped |-> {}, hits |-> checked.hits])
      ELSE IF match.status = "finished"
        THEN (IF match.end_time # 0 /\ now - match.end_time > 300000 THEN cleaned ELSE untouched)
      ELSE IF match.status = "waiting"
        THEN (IF now - (IF match.start_time # 0 THEN match.start_time ELSE now) > 120000
                THEN cleaned ELSE untouched)
      ELSE untouched

\* What a handler's calls leave in the physics engine for one match: read
\* says calculate_current_physics was called, removed that
\* remove_match_modifications was called after it.
EngineMods(match_id, read, removed) ==
  IF removed THEN << >>
  ELSE IF read THEN calculate_current_physics(match_id).stored
  ELSE active_modifications[match_id]

EngineApplied(match_id, removed) == IF removed THEN << >> ELSE applied[match_id]

\* The handlers' reads are not remembered.
EngineSeen(match_id, read, removed) ==
  IF removed \/ read THEN NotSeen ELSE physics_seen[match_id]

RECURSIVE Flatten(_)
Flatten(lists) == IF lists = << >> THEN << >> ELSE Head(lists) \o Flatten(Tail(lists))

\* update_matches, as the game loop calls it
GameLoop ==
  LET updated == [m \in MatchIds |-> UpdateMatch(m)]
  IN  /\ now >= next_frame
      /\ next_frame' = now + FrameMs
      /\ matches' = [m \in MatchIds |-> updated[m].match]
      /\ player_match_map' =
           [p \in Players |->
              IF \E m \in MatchIds : p \in updated[m].unmapped THEN 0 ELSE player_match_map[p]]
      /\ active_modifications' =
           [m \in MatchIds |-> EngineMods(m, updated[m].read, updated[m].removed)]
      /\ applied' = [m \in MatchIds |-> EngineApplied(m, updated[m].removed)]
      /\ physics_seen' =
           [m \in MatchIds |-> EngineSeen(m, updated[m].read, updated[m].removed)]
      /\ hits' = Flatten([m \in MatchIds |-> updated[m].hits])
      /\ sent' = Delivered(active_connections,
                     Flatten([m \in MatchIds |->
                                IF updated[m].match.status = "active"
                                  THEN ToPlayers("game_state_update", m, updated[m].match.players)
                                  ELSE << >>]))
      /\ active_connections' =
           SendToPlayers(active_connections,
                         Flatten([m \in MatchIds |->
                                    IF updated[m].match.status = "active"
                                      THEN updated[m].match.players ELSE << >>]))
      /\ last' = Reply("update_matches", "", 0, TRUE, 0)
      /\ UNCHANGED << now, modification_history, forgeVars, matches_created, sockets >>

\* handle_player_input with the bounds checking at the arena's edges, without
\* the 16 px margin
MovePlayer_clamps_to_edge(player, input_data, current_physics) ==
  LET time_scale == current_physics.time_scale
      friction == current_physics.friction
      move_speed == Scaled(200 * FPS, time_scale)
      vx == IF input_data.left THEN -move_speed
            ELSE IF input_data.right THEN move_speed
            ELSE Scaled(player.velocity.x, friction)
      on_ground == -(10 * FPS) < player.velocity.y /\ player.velocity.y < 10 * FPS
      vy == IF input_data.jump /\ on_ground THEN Scaled(-400 * FPS, time_scale)
            ELSE player.velocity.y
      x == player.position.x + vx
      y == player.position.y + vy
      fallen == vy + Scaled(1, current_physics.gravity)
      landed == y > 500 * PX
  IN  [player EXCEPT
         !.velocity = [x |-> vx, y |-> IF landed THEN 0 ELSE fallen],
         !.position = [x |-> Max(0, Min(arena_width * PX, x)),
                       y |-> Max(0, Min(arena_height * PX, IF landed THEN 500 * PX ELSE y))]]

\* One call of MatchManager.handle_player_input on a player that passed its
\* checks: the player it leaves.
MovePlayer(player, input_data, current_physics) ==
  LET time_scale == current_physics.time_scale
      friction == current_physics.friction
      move_speed == Scaled(200 * FPS, time_scale)
      vx == IF input_data.left THEN -move_speed
            ELSE IF input_data.right THEN move_speed
            ELSE Scaled(player.velocity.x, friction)
      on_ground == -(10 * FPS) < player.velocity.y /\ player.velocity.y < 10 * FPS
      vy == IF input_data.jump /\ on_ground THEN Scaled(-400 * FPS, time_scale)
            ELSE player.velocity.y
      x == player.position.x + vx
      y == player.position.y + vy
      fallen == vy + Scaled(1, current_physics.gravity)
      landed == y > 500 * PX
  IN  [player EXCEPT
         !.velocity = [x |-> vx, y |-> IF landed THEN 0 ELSE fallen],
         !.position = [x |-> Max(16 * PX, Min((arena_width - 16) * PX, x)),
                       y |-> Max(16 * PX,
                                 Min((arena_height - 16) * PX, IF landed THEN 500 * PX ELSE y))]]

\* The same input message handled frames times in a row.
RECURSIVE Held(_, _, _, _)
Held(player, input_data, current_physics, frames) ==
  IF frames = 0 THEN player
  ELSE IF frames = 1 THEN MovePlayer(player, input_data, current_physics)
  ELSE LET half == Held(player, input_data, current_physics, frames \div 2)
       IN  IF half.id = player.id
             THEN Held(half, input_data, current_physics, frames - frames \div 2)
             ELSE player

Stance(player) == [position |-> player.position, velocity |-> player.velocity]

\* The stances that holding an input for FramesHeld frames leads to from the
\* two starting positions under the base physics, and where holding an input
\* leads from each of them: Held, computed once.
RECURSIVE StancesFrom(_)
StancesFrom(stances) ==
  LET further ==
        stances \cup
          { Stance(Held([PlayerState("", s.position) EXCEPT !.velocity = s.velocity],
                        input_data, BasePhysics, FramesHeld)) :
              s \in stances, input_data \in Inputs }
  IN  IF further = stances THEN stances ELSE StancesFrom(further)

HeldStances ==
  StancesFrom({ Stance(PlayerState("", Position(200, 500))),
                Stance(PlayerState("", Position(1000, 500))) })

HeldFrom ==
  [s \in HeldStances, input_data \in Inputs |->
     Stance(Held([PlayerState("", s.position) EXCEPT !.velocity = s.velocity],
                 input_data, BasePhysics, FramesHeld))]

HoldInput(player, input_data, current_physics, frames) ==
  IF /\ frames = FramesHeld
     /\ input_data \in Inputs
     /\ Stance(player) \in HeldStances
     /\ current_physics.time_scale = BasePhysics.time_scale
     /\ current_physics.friction = BasePhysics.friction
     /\ current_physics.gravity = BasePhysics.gravity
    THEN [player EXCEPT !.position = HeldFrom[Stance(player), input_data].position,
                        !.velocity = HeldFrom[Stance(player), input_data].velocity]
    ELSE Held(player, input_data, current_physics, frames)

\* math.sqrt at the resolution of the distances: the largest r with r * r <= v
RECURSIVE SqrtBetween(_, _, _)
SqrtBetween(v, low, high) ==
  IF low >= high THEN low
  ELSE LET mid == (low + high + 1) \div 2
       IN  IF mid * mid <= v THEN SqrtBetween(v, mid, high) ELSE SqrtBetween(v, low, mid - 1)

Sqrt(v) == SqrtBetween(v, 0, 32767)

\* pixels to tenths of a pixel, the resolution of the distances
Tenths(d) == IntDiv(d, PX \div 10)

\* _create_projectile: the projectile list it leaves
_create_projectile(match, player, weapon, target_pos, physics) ==
  LET dx == Tenths(target_pos.x - player.position.x)
      dy == Tenths(target_pos.y - player.position.y)
      distance == Sqrt(dx * dx + dy * dy)
      damage_multiplier == physics.damage_multiplier
      projectile_speed == weapon.properties.speed * 5
      projectile ==
        [weapon_id |-> weapon.id, player_id |-> player.id, position |-> player.position,
         velocity |-> [x |-> IntDiv(dx * projectile_speed * FPS, distance),
                       y |-> IntDiv(dy * projectile_speed * FPS, distance)],
         damage |-> Scaled(weapon.properties.damage, damage_multiplier),
         created_at |-> now,
         expires_at |-> now + (1000 * weapon.properties.range) \div projectile_speed]
  IN  IF distance = 0 THEN match.projectiles ELSE Append(match.projectiles, projectile)

_create_area_effect_no_kill(match_id, match, shooter, weapon, target_pos, physics) ==
  LET damage_multiplier == physics.damage_multiplier
      damage == Scaled(weapon.properties.damage, damage_multiplier)
      in_range(target_player) ==
        LET dx == Tenths(target_player.position.x - target_pos.x)
            dy == Tenths(target_player.position.y - target_pos.y)
            reach == 10 * weapon.properties.range
        IN  /\ -reach <= dx /\ dx <= reach /\ -reach <= dy /\ dy <= reach
            /\ dx * dx + dy * dy <= reach * reach
      RECURSIVE Blast(_, _)
      Blast(i, state) ==
        IF i > Len(match.players) THEN state
        ELSE LET target_player == state.players[i]
                 health == Max(0, target_player.health - damage)
                 hurt == [state.players EXCEPT ![i].health = health]
                 dead == [hurt EXCEPT ![i].is_alive = FALSE, ![i].deaths = @ + 1]
             IN  IF /\ i # shooter
                    /\ target_player.is_alive
                    /\ in_range(target_player)
                   THEN Blast(i + 1,
                              [players |-> IF health <= 0 THEN dead ELSE hurt,
                               hits |-> Append(state.hits,
                                               Hit("area_effect", match_id,
                                                   state.players[shooter].id,
                                                   target_player.id,
                                                   target_player.health, health))])
                   ELSE Blast(i + 1, state)
  IN  Blast(1, [players |-> match.players, hits |-> << >>])

\* _create_area_effect by the player at index shooter: the players it leaves
\* and the hits, in order
_create_area_effect(match_id, match, shooter, weapon, target_pos, physics) ==
  LET damage_multiplier == physics.damage_multiplier
      damage == Scaled(weapon.properties.damage, damage_multiplier)
      in_range(target_player) ==
        LET dx == Tenths(target_player.position.x - target_pos.x)
            dy == Tenths(target_player.position.y - target_pos.y)
            reach == 10 * weapon.properties.range
        IN  /\ -reach <= dx /\ dx <= reach /\ -reach <= dy /\ dy <= reach
            /\ dx * dx + dy * dy <= reach * reach
      RECURSIVE Blast(_, _)
      Blast(i, state) ==
        IF i > Len(match.players) THEN state
        ELSE LET target_player == state.players[i]
                 health == Max(0, target_player.health - damage)
                 hurt == [state.players EXCEPT ![i].health = health]
                 dead == [hurt EXCEPT ![i].is_alive = FALSE, ![i].deaths = @ + 1,
                                      ![shooter].kills = @ + 1]
             IN  IF /\ i # shooter
                    /\ target_player.is_alive
                    /\ in_range(target_player)
                   THEN Blast(i + 1,
                              [players |-> IF health <= 0 THEN dead ELSE hurt,
                               hits |-> Append(state.hits,
                                               Hit("area_effect", match_id,
                                                   state.players[shooter].id,
                                                   target_player.id,
                                                   target_player.health, health))])
                   ELSE Blast(i + 1, state)
  IN  Blast(1, [players |-> match.players, hits |-> << >>])

\* The first weapon of the list with this id, as its index; 0 if none has it
WeaponIndex(weapons, weapon_id) ==
  IF \E i \in 1..Len(weapons) : weapons[i].id = weapon_id
    THEN CHOOSE i \in 1..Len(weapons) :
           weapons[i].id = weapon_id /\ \A h \in 1..(i - 1) : weapons[h].id # weapon_id
    ELSE 0

remove_player_keeps_match(player_id) ==
  LET match_id == player_match_map[player_id]
      match == matches[match_id]
      left == [match EXCEPT !.players = SelectSeq(@, LAMBDA p : p.id # player_id)]
  IN  IF match_id = 0
        THEN [matches |-> matches, player_match_map |-> player_match_map,
              match_id |-> 0, ended |-> FALSE]
      ELSE IF ~match.exists
        THEN [matches |-> matches,
              player_match_map |-> [player_match_map EXCEPT ![player_id] = 0],
              match_id |-> match_id, ended |-> FALSE]
      ELSE [matches |-> [matches EXCEPT ![match_id] = left],
            player_match_map |-> [player_match_map EXCEPT ![player_id] = 0],
            match_id |-> match_id, ended |-> FALSE]

\* remove_player ending the match only when its last player has left
remove_player_ends_empty_match(player_id) ==
  LET match_id == player_match_map[player_id]
      match == matches[match_id]
      left == [match EXCEPT !.players = SelectSeq(@, LAMBDA p : p.id # player_id)]
      ends == Len(left.players) < 1 /\ match.status = "active"
  IN  IF match_id = 0
        THEN [matches |-> matches, player_match_map |-> player_match_map,
              match_id |-> 0, ended |-> FALSE]
      ELSE IF ~match.exists
        THEN [matches |-> matches,
              player_match_map |-> [player_match_map EXCEPT ![player_id] = 0],
              match_id |-> match_id, ended |-> FALSE]
      ELSE [matches |-> [matches EXCEPT ![match_id] = IF ends THEN _end_match(left) ELSE left],
            player_match_map |-> [player_match_map EXCEPT ![player_id] = 0],
            match_id |-> match_id, ended |-> ends]

\* remove_player: the registry it leaves and whether it ended the match
remove_player(player_id) ==
  LET match_id == player_match_map[player_id]
      match == matches[match_id]
      left == [match EXCEPT !.players = SelectSeq(@, LAMBDA p : p.id # player_id)]
      ends == Len(left.players) < 2 /\ match.status = "active"
  IN  IF match_id = 0
        THEN [matches |-> matches, player_match_map |-> player_match_map,
              match_id |-> 0, ended |-> FALSE]
      ELSE IF ~match.exists
        THEN [matches |-> matches,
              player_match_map |-> [player_match_map EXCEPT ![player_id] = 0],
              match_id |-> match_id, ended |-> FALSE]
      ELSE [matches |-> [matches EXCEPT ![match_id] = IF ends THEN _end_match(left) ELSE left],
            player_match_map |-> [player_match_map EXCEPT ![player_id] = 0],
            match_id |-> match_id, ended |-> ends]

(***************************************************************************)
(* The message handlers and the game loop (main.py).                       *)
(***************************************************************************)
\* websocket_endpoint up to its first receive: connect and the welcome message
Connect(player_id) ==
  /\ sockets[player_id] = "none"
  /\ sockets' = [sockets EXCEPT ![player_id] = "open"]
  /\ active_connections' = active_connections \cup {player_id}
  /\ hits' = << >>
  /\ sent' = << Message("player_connect", player_id, 0) >>
  /\ last' = Reply("player_connect", player_id, 0, TRUE, 0)
  /\ UNCHANGED << now, engineVars, forgeVars, matches, player_match_map, matches_created,
                  next_frame >>

\* The peer of the player's socket goes away.
BreakSocket(player_id) ==
  /\ sockets[player_id] = "open"
  /\ sockets' = [sockets EXCEPT ![player_id] = "broken"]
  /\ hits' = << >>
  /\ sent' = << >>
  /\ last' = Reply("socket_broken", player_id, 0, TRUE, 0)
  /\ UNCHANGED << now, engineVars, forgeVars, matches, player_match_map, matches_created,
                  next_frame, active_connections >>

\* What the calls of one handler leave in the physics engine for one match.
EngineTouch(match_id, read, removed) ==
  /\ active_modifications' =
       [active_modifications EXCEPT ![match_id] = EngineMods(match_id, read, removed)]
  /\ applied' = [applied EXCEPT ![match_id] = EngineApplied(match_id, removed)]
  /\ physics_seen' = [physics_seen EXCEPT ![match_id] = EngineSeen(match_id, read, removed)]

\* A call of MatchManager.start_match(match_id) by any caller
StartMatch(match_id) ==
  LET started == start_match(matches, match_id)
  IN  /\ matches' = started.matches
      /\ hits' = << >>
      /\ sent' = << >>
      /\ last' = Reply("start_match", "", match_id, started.ok, 0)
      /\ UNCHANGED << now, engineVars, forgeVars, player_match_map, matches_created,
                      next_frame, connVars >>

\* handle_find_match
HandleFindMatch(player_id) ==
  LET found == find_or_create_match(player_id)
      match == found.matches[found.match_id]
      starts == Len(match.players) >= 2 /\ match.status = "waiting"
  IN  /\ sockets[player_id] = "open"
      /\ ~generating[player_id].busy
      /\ found.created => matches_created < MaxMatches
      /\ matches' = IF starts THEN start_match(found.matches, found.match_id).matches
                              ELSE found.matches
      /\ player_match_map' = found.player_match_map
      /\ matches_created' = IF found.created THEN matches_created + 1 ELSE matches_created
      /\ hits' = << >>
      /\ sent' = Delivered(active_connections,
                     ToPlayers("match_found", found.match_id, match.players)
                       \o (IF starts THEN ToPlayers("match_start", found.match_id, match.players)
                                     ELSE << >>))
      /\ active_connections' = SendToPlayers(active_connections, match.players \o match.players)
      /\ last' = Reply("find_match", player_id, found.match_id, TRUE, 0)
      /\ UNCHANGED << now, engineVars, forgeVars, next_frame, sockets >>

\* handle_player_input, for frames messages with the same input in a row
HandlePlayerInput(player_id, match_id, input_data, frames) ==
  LET match == matches[match_id]
      player == get_player_state(matches, match_id, player_id)
      acts == /\ match.exists /\ match.status = "active"
              /\ player # 0 /\ match.players[player].is_alive
      current_physics == calculate_current_physics(match_id).physics
  IN  /\ sockets[player_id] = "open"
      /\ ~generating[player_id].busy
      /\ acts
      /\ matches' = [matches EXCEPT ![match_id].players[player] =
                       HoldInput(@, input_data, current_physics, frames)]
      /\ EngineTouch(match_id, TRUE, FALSE)
      /\ hits' = << >>
      /\ sent' = << >>
      /\ last' = Reply("player_input", "", match_id, TRUE, 0)
      /\ UNCHANGED << now, modification_history, forgeVars, player_match_map, matches_created,
                      next_frame, connVars >>

\* handle_weapon_use and MatchManager.use_weapon
HandleWeaponUse(player_id, match_id, weapon_id, target_position) ==
  LET match == matches[match_id]
      player == get_player_state(matches, match_id, player_id)
      found == WeaponIndex(match.players[player].weapons, weapon_id)
      acts == /\ match.exists /\ match.status = "active"
              /\ player # 0 /\ match.players[player].is_alive
              /\ found # 0
      weapon == match.players[player].weapons[found]
      current_physics == calculate_current_physics(match_id).physics
      fired == _create_projectile(match, match.players[player], weapon, target_position,
                                  current_physics)
      blast == _create_area_effect(match_id, match, player, weapon, target_position,
                                   current_physics)
      used ==
        IF weapon.category \in {"projectile", "magic"}
          THEN [players |-> match.players, projectiles |-> fired, hits |-> << >>]
        ELSE IF weapon.category = "area_effect"
          THEN [players |-> blast.players, projectiles |-> match.projectiles,
                hits |-> blast.hits]
        ELSE [players |-> match.players, projectiles |-> match.projectiles, hits |-> << >>]
      weapon_cooldown == now + Scaled(weapon.properties.cooldown,
                                      current_physics.cooldown_multiplier)
  IN  /\ sockets[player_id] = "open"
      /\ ~generating[player_id].busy
      /\ acts
      /\ matches' = [matches EXCEPT
                       ![match_id].players =
                          [used.players EXCEPT ![player].weapon_cooldown = weapon_cooldown],
                       ![match_id].projectiles = used.projectiles]
      /\ EngineTouch(match_id, TRUE, FALSE)
      /\ hits' = used.hits
      /\ sent' = << >>
      /\ last' = Reply("weapon_use", "", match_id, TRUE, 0)
      /\ UNCHANGED << now, modification_history, forgeVars, player_match_map, matches_created,
                      next_frame, connVars >>

\* handle_master_prompt
HandleMasterPrompt(player_id, match_id, prompt) ==
  /\ sockets[player_id] = "open"
  /\ ~generating[player_id].busy
  /\ Len(modification_history) < MaxPrompts
  /\ Strip(prompt) # << >> /\ matches[match_id].exists
  /\ \E modification \in _parse_physics_prompt(Strip(prompt), match_id) :
              /\ active_modifications' =
                   [active_modifications EXCEPT ![match_id] = Append(@, modification)]
              /\ modification_history' = Append(modification_history, modification)
              /\ applied' = [applied EXCEPT ![match_id] = Append(@, modification)]
              /\ physics_seen' = [physics_seen EXCEPT ![match_id] = NotSeen]
              /\ matches' =
                   [matches EXCEPT ![match_id].physics =
                      apply_modifications(
                        [@ EXCEPT !.active_modifications = Append(@, modification)])]
              /\ last' = Reply("master_prompt", "", match_id, TRUE, 0)
  /\ active_connections' = SendToPlayers(active_connections, matches[match_id].players)
  /\ hits' = << >>
  /\ sent' = Delivered(active_connections,
                  ToPlayers("physics_changed", match_id, matches[match_id].players))
  /\ UNCHANGED << now, forgeVars, player_match_map, matches_created, next_frame, sockets >>

\* The matches the scheduler fires into when it wakes: those of
\* get_active_matches whose last_master_prompt lies more than 30 s back.
SchedulerDue ==
  {m \in MatchIds : /\ matches[m].exists /\ matches[m].status = "active"
                    /\ now - matches[m].last_master_prompt > 30000}

\* The modifications a round of the scheduler can draw for a match.
SchedulerDraws(match_id) ==
  UNION {_parse_physics_prompt(prompt, match_id) : prompt \in random_prompts}

\* The values of a function over match ids, in the order of the ids.
RECURSIVE InMatchOrder(_, _)
InMatchOrder(m, f) ==
  IF m > MaxMatches THEN << >>
  ELSE (IF m \in DOMAIN f THEN << f[m] >> ELSE << >>) \o InMatchOrder(m + 1, f)

\* One round of master_prompt_scheduler after its sleep of 35 s. The round
\* tests each match just before it modifies it, and suspends only in the
\* sends that follow.
MasterPromptScheduler ==
  LET due == SchedulerDue
  IN  /\ now > StartTime /\ (now - StartTime) % 35000 = 0
      /\ Len(modification_history) + Cardinality(due) <= MaxApplied
      /\ \E drawn \in [due -> UNION {SchedulerDraws(m) : m \in MatchIds}] :
           /\ \A m \in due : drawn[m] \in SchedulerDraws(m)
           /\ active_modifications' =
                [m \in MatchIds |->
                   IF m \in due THEN Append(active_modifications[m], drawn[m])
                   ELSE active_modifications[m]]
           /\ modification_history' = modification_history \o InMatchOrder(1, drawn)
           /\ applied' =
                [m \in MatchIds |->
                   IF m \in due THEN Append(applied[m], drawn[m]) ELSE applied[m]]
           /\ physics_seen' =
                [m \in MatchIds |-> IF m \in due THEN NotSeen ELSE physics_seen[m]]
           /\ matches' =
                [m \in MatchIds |->
                   IF m \in due
                     THEN [matches[m] EXCEPT
                             !.physics =
                                apply_modifications(
                                  [@ EXCEPT !.active_modifications = Append(@, drawn[m])]),
                             !.last_master_prompt = now]
                     ELSE matches[m]]
      /\ active_connections' =
           SendToPlayers(active_connections,
                         Flatten([m \in MatchIds |->
                                    IF m \in due THEN matches[m].players ELSE << >>]))
      /\ hits' = << >>
      /\ sent' = Delivered(active_connections,
                     Flatten([m \in MatchIds |->
                                IF m \in due THEN ToPlayers("physics_changed", m, matches[m].players)
                                            ELSE << >>]))
      /\ last' = Reply("master_prompt_scheduler", "", 0, due # {}, 0)
      /\ UNCHANGED << now, forgeVars, player_match_map, matches_created, next_frame, sockets >>

\* handle_player_disconnect
HandlePlayerDisconnect(player_id) ==
  LET removed == remove_player(player_id)
  IN  /\ sockets[player_id] # "none"
      /\ ~generating[player_id].busy
      /\ matches' = removed.matches
      /\ player_match_map' = removed.player_match_map
      /\ IF removed.ended
           THEN EngineTouch(removed.match_id, FALSE, TRUE)
           ELSE UNCHANGED << active_modifications, applied, physics_seen >>
      /\ hits' = << >>
      /\ sent' = << >>
      /\ active_connections' = disconnect(active_connections, player_id)
      /\ sockets' = [sockets EXCEPT ![player_id] = "none"]
      /\ last' = Reply("player_disconnect", player_id, removed.match_id, removed.ended, 0)
      /\ UNCHANGED << now, modification_history, forgeVars, matches_created, next_frame >>

\* The end of a successful handle_weapon_generation: cooldown and weapon
\* list of the PlayerState the handler holds, if the registry still has it.
GiveWeapon(player_id, match_id, weapon) ==
  LET player == get_player_state(matches, match_id, player_id)
  IN  IF player = 0 THEN matches
      ELSE [matches EXCEPT ![match_id].players[player] =
              [@ EXCEPT !.weapon_cooldown = now + 12000, !.weapons = Append(@, weapon)]]

\* handle_weapon_generation, up to its return or to the suspension of
\* generate_weapon in the AI call
HandleWeaponGeneration(player_id, match_id, prompt) ==
  LET stripped == Strip(prompt)
      player == get_player_state(matches, match_id, player_id)
      weapon_cooldown == matches[match_id].players[player].weapon_cooldown
      begin == generate_weapon_begin(stripped, player_id)
      refuse(error, remaining) ==
        /\ last' = Reply(error, player_id, match_id, FALSE, remaining)
        /\ UNCHANGED << cache, next_weapon_id, generating, issued, matches, active_connections >>
  IN  /\ sockets[player_id] = "open"
      /\ ~generating[player_id].busy
      /\ ~(stripped = << >> \/ Len(stripped) > 20)
      /\ matches[match_id].exists
      /\ player # 0
      /\ IF now < weapon_cooldown
           THEN refuse("weapon_generate", IntDiv(weapon_cooldown - now, 1000))
         ELSE IF begin.result = "hit"
           THEN /\ matches' = GiveWeapon(player_id, match_id, begin.weapon)
                /\ issued' = issued \cup {[key |-> begin.key, player_id |-> player_id,
                                           weapon |-> begin.weapon, at |-> now]}
                /\ next_weapon_id' = next_weapon_id + 1
                /\ active_connections' =
                     SendToPlayers(active_connections, matches[match_id].players)
                /\ last' = Reply("weapon_generate", player_id, match_id, TRUE, begin.weapon.id)
                /\ UNCHANGED << cache, generating >>
         ELSE /\ generating' = [generating EXCEPT ![player_id] =
                                  [busy |-> TRUE, prompt |-> begin.key,
                                   match_id |-> match_id, started |-> now]]
              /\ last' = Reply("weapon_generate", player_id, match_id, TRUE, 0)
              /\ UNCHANGED << cache, next_weapon_id, issued, matches, active_connections >>
      /\ hits' = << >>
      /\ sent' =
           IF now < weapon_cooldown
             THEN Delivered(active_connections,
                            << Message("weapon_generated", player_id, match_id) >>)
           ELSE IF begin.result = "hit"
             THEN Delivered(active_connections,
                            ToPlayers("weapon_generated", match_id, matches[match_id].players))
           ELSE << >>
      /\ UNCHANGED << now, engineVars, gemini_model, hash_seed, player_match_map,
                      matches_created, next_frame, sockets >>

\* generate_weapon resumes and handle_weapon_generation runs to its end
WeaponGenerationReturn(player_id, ai, raises) ==
  LET prompt == generating[player_id].prompt
      match_id == generating[player_id].match_id
      weapon == generate_weapon_end(prompt, player_id, ai, raises)
  IN  /\ generating[player_id].busy
      /\ match_id # 0
      /\ gemini_model \/ ai.kind = "none"
      /\ cache' = IF raises THEN cache ELSE CacheStore(prompt, weapon)
      /\ issued' = issued \cup {[key |-> prompt, player_id |-> player_id, weapon |-> weapon,
                               at |-> now]}
      /\ next_weapon_id' = next_weapon_id + 1
      /\ generating' = [generating EXCEPT ![player_id] = Idle]
      /\ matches' = GiveWeapon(player_id, match_id, weapon)
      /\ active_connections' = SendToPlayers(active_connections, matches[match_id].players)
      /\ hits' = << >>
      /\ sent' = Delivered(active_connections,
                     ToPlayers("weapon_generated", match_id, matches[match_id].players))
      /\ last' = Reply("weapon_generated", player_id, match_id, TRUE, weapon.id)
      /\ UNCHANGED << now, engineVars, gemini_model, hash_seed, player_match_map,
                      matches_created, next_frame, sockets >>

(***************************************************************************)
(* The specifications.                                                     *)
(***************************************************************************)
InitEngine ==
  /\ active_modifications = [m \in MatchIds |-> << >>]
  /\ modification_history = << >>
  /\ applied = [m \in MatchIds |-> << >>]
  /\ physics_seen = [m \in MatchIds |-> NotSeen]

InitForge ==
  /\ gemini_model \in BOOLEAN
  /\ hash_seed \in HashSeeds
  /\ cache = {}
  /\ next_weapon_id = 1
  /\ generating = [p \in Players |-> Idle]
  /\ issued = {}

InitMatches ==
  /\ matches = [m \in MatchIds |-> NoMatch]
  /\ player_match_map = [p \in Players |-> 0]
  /\ matches_created = 0
  /\ next_frame = 0
  /\ hits = << >>

InitConnections ==
  /\ active_connections = {}
  /\ sockets = [p \in Players |-> "none"]
  /\ sent = << >>

\* The server after its construction, for any configuration of the generator.
InitServer ==
  /\ now = StartTime
  /\ InitEngine
  /\ InitForge
  /\ InitMatches
  /\ InitConnections
  /\ last = NoReply

\* The server as it is built: no AI collaborator (genai = None).
Init ==
  /\ InitServer
  /\ gemini_model = FALSE
  /\ hash_seed = 2

\* The physics engine on its own.
PhysicsSteps == {10000}

PhysicsMatches == {1}

NextPhysics ==
  \/ \E prompt \in PhysicsPrompts, m \in PhysicsMatches :
       Len(modification_history) < MaxApplied /\ apply_master_prompt(prompt, m)
  \/ \E m \in PhysicsMatches : CalculateCurrentPhysics(m)
  \/ \E m \in PhysicsMatches : remove_match_modifications(m)
  \/ \E d \in PhysicsSteps : now + d <= MaxTime /\ AdvanceTime(d)

SpecPhysics == Init /\ [][NextPhysics]_vars

\* The weapon generator on its own, with and without the AI collaborator.
ForgePlayers == {"p1", "p2"}

NextForge ==
  \/ \E p \in ForgePlayers, prompt \in ForgePrompts : GenerateWeaponCall(p, prompt)
  \/ \E p \in ForgePlayers, ai \in AIOutcomes, raises \in BOOLEAN :
       /\ raises => ai.kind = "none"
       /\ GenerateWeaponReturn(p, ai, raises)

SpecForge == InitServer /\ [][NextForge]_vars

\* The server: matchmaking, the game loop, combat. Each player generates one
\* weapon, and the master prompts go to matches that are running.
MatchPlayers == {"p1", "p2"}

MasterPrompts == {DoubleDamage}

TargetPositions == {Position(1000, 500), Position(1184, 500)}

MatchSteps == {90000, 91000}

Next ==
  \/ \E p \in MatchPlayers : Connect(p)
  \/ \E p \in MatchPlayers :
       /\ find_or_create_match(p).created => matches_created < MaxFights
       /\ HandleFindMatch(p)
  \/ \E p \in {"p1"} : HandlePlayerDisconnect(p)
  \/ \E p \in {"p1"}, m \in MatchIds, input_data \in Inputs :
       HandlePlayerInput(p, m, input_data, FramesHeld)
  \/ \E m \in MatchIds :
       /\ Cardinality(issued) < MaxIssued /\ \A e \in issued : e.player_id # "p1"
       /\ HandleWeaponGeneration("p1", m, Bomb)
  \/ \E m \in MatchIds :
       /\ Cardinality(issued) < MaxIssued /\ \A e \in issued : e.player_id # "p2"
       /\ HandleWeaponGeneration("p2", m, IceSpear)
  \/ \E p \in MatchPlayers : WeaponGenerationReturn(p, [kind |-> "none", data |-> NoData], FALSE)
  \/ \E p \in MatchPlayers, m \in MatchIds, w \in 1..MaxIssued, target \in TargetPositions :
       HandleWeaponUse(p, m, w, target) /\ Len(matches'[m].projectiles) <= MaxProjectiles
  \/ \E p \in {"p1"}, m \in MatchIds, prompt \in MasterPrompts :
       matches[m].status = "active" /\ HandleMasterPrompt(p, m, prompt)
  \/ GameLoop
  \/ \E d \in MatchSteps : now + d <= MaxMatchTime /\ AdvanceTime(d)

Spec == Init /\ [][Next]_vars

\* The server over the twelve seconds that follow a weapon generation.
CooldownSteps == {6000}

NextCooldown ==
  \/ \E p \in MatchPlayers : Connect(p)
  \/ \E p \in MatchPlayers :
       /\ find_or_create_match(p).created => matches_created < MaxFights
       /\ HandleFindMatch(p)
  \/ \E p \in {"p1"}, m \in MatchIds, input_data \in Inputs :
       HandlePlayerInput(p, m, input_data, FramesHeld)
  \/ \E m \in MatchIds :
       Cardinality(issued) < MaxIssued /\ HandleWeaponGeneration("p1", m, Bomb)
  \/ \E m \in MatchIds :
       Cardinality(issued) < MaxIssued /\ HandleWeaponGeneration("p2", m, IceSpear)
  \/ \E p \in MatchPlayers : WeaponGenerationReturn(p, [kind |-> "none", data |-> NoData], FALSE)
  \/ \E p \in MatchPlayers, m \in MatchIds, w \in 1..MaxIssued, target \in TargetPositions :
       HandleWeaponUse(p, m, w, target) /\ Len(matches'[m].projectiles) <= MaxProjectiles
  \/ \E p \in {"p1"}, m \in MatchIds, prompt \in MasterPrompts :
       HandleMasterPrompt(p, m, prompt)
  \/ GameLoop
  \/ \E d \in CooldownSteps : now + d <= MaxCooldownTime /\ AdvanceTime(d)

SpecCooldown == Init /\ [][NextCooldown]_vars

\* The lobby: any of the players connects, asks for a match, loses its socket
\* or leaves, while the game loop runs and a match can reach its time limit.
LobbySteps == {91000}

NextLobby ==
  \/ \E p \in Players : Connect(p)
  \/ \E p \in Players : BreakSocket(p)
  \/ \E p \in Players : HandleFindMatch(p)
  \/ \E p \in Players : HandlePlayerDisconnect(p)
  \/ GameLoop
  \/ \E d \in LobbySteps : now + d <= MaxMatchTime /\ AdvanceTime(d)

SpecLobby == Init /\ [][NextLobby]_vars

\* The lobby with start_match called on any match at any time.
NextStart ==
  \/ NextLobby
  \/ \E m \in MatchIds : StartMatch(m)

SpecStart == Init /\ [][NextStart]_vars

\* The sweep of update_matches: two players come and go over five minutes,
\* and the game loop, a `while True` around update_matches and a sleep, is
\* scheduled fairly.
SweepPlayers == {"p1", "p2"}

SweepSteps == {121000, 300000, 301000}

NextSweep ==
  \/ \E p \in SweepPlayers : Connect(p)
  \/ \E p \in SweepPlayers : HandleFindMatch(p)
  \/ \E p \in SweepPlayers : HandlePlayerDisconnect(p)
  \/ GameLoop
  \/ \E d \in SweepSteps : now + d <= MaxSweepTime /\ AdvanceTime(d)

SpecSweep == Init /\ [][NextSweep]_vars /\ WF_vars(GameLoop)

\* Two players, their master prompts and the scheduler, over the first two
\* rounds of the scheduler.
SchedulerSteps == {17000, 18000}

NextScheduler ==
  \/ \E p \in MatchPlayers : Connect(p)
  \/ \E p \in MatchPlayers :
       /\ find_or_create_match(p).created => matches_created < MaxFights
       /\ HandleFindMatch(p)
  \/ \E p \in {"p1"} : HandlePlayerDisconnect(p)
  \/ \E p \in {"p2"}, m \in MatchIds, prompt \in MasterPrompts :
       HandleMasterPrompt(p, m, prompt)
  \/ MasterPromptScheduler
  \/ \E d \in SchedulerSteps : now + d <= MaxSchedulerTime /\ AdvanceTime(d)

SpecScheduler == Init /\ [][NextScheduler]_vars

\* Two players and their match; one of them generates weapons as often as
\* the cooldown of 12 s lets it.
ArsenalSteps == {12000}

NextArsenal ==
  \/ \E p \in MatchPlayers : Connect(p)
  \/ \E p \in MatchPlayers :
       /\ find_or_create_match(p).created => matches_created < MaxFights
       /\ HandleFindMatch(p)
  \/ \E m \in MatchIds, prompt \in {Bomb, IceSpear} :
       Cardinality(issued) < MaxArsenal /\ HandleWeaponGeneration("p1", m, prompt)
  \/ WeaponGenerationReturn("p1", [kind |-> "none", data |-> NoData], FALSE)
  \/ \E d \in ArsenalSteps : now + d <= MaxArsenalTime /\ AdvanceTime(d)

SpecArsenal == Init /\ [][NextArsenal]_vars

\* A fight of two players in a run of the server whose hash() gives the Ice
\* Spear of p2 its lowest damage; p1 walks towards p2 and sends the master
\* prompts.
InitDamage ==
  /\ InitServer
  /\ gemini_model = FALSE
  /\ hash_seed = 4

NextDamage ==
  \/ \E p \in MatchPlayers : Connect(p)
  \/ \E p \in MatchPlayers :
       /\ find_or_create_match(p).created => matches_created < MaxFights
       /\ HandleFindMatch(p)
  \/ \E m \in MatchIds, input_data \in Inputs :
       HandlePlayerInput("p1", m, input_data, FramesHeld)
  \/ \E m \in MatchIds :
       issued = {} /\ HandleWeaponGeneration("p2", m, IceSpear)
  \/ WeaponGenerationReturn("p2", [kind |-> "none", data |-> NoData], FALSE)
  \/ \E m \in MatchIds, w \in 1..MaxIssued, target \in TargetPositions :
       HandleWeaponUse("p2", m, w, target) /\ Len(matches'[m].projectiles) <= MaxVolley
  \/ \E m \in MatchIds, prompt \in MasterPrompts :
       matches[m].status = "active" /\ HandleMasterPrompt("p1", m, prompt)
  \/ GameLoop
  \/ now + 1000 <= MaxDamageTime /\ AdvanceTime(1000)

SpecDamage == InitDamage /\ [][NextDamage]_vars

\* A player moving about the arena under the prompts that change gravity
\* and the time scale: messages of one frame while the player stands or
\* jumps on the spot, and inputs held for a second. A player who is pressed
\* against the ceiling keeps gaining speed; MaxRise bounds the seconds of it
\* the model follows. A match gets one master prompt, while its players stand.
ReverseGravity == << "r","e","v","e","r","s","e"," ","g","r","a","v","i","t","y" >>

ZeroGravity == << "z","e","r","o"," ","g","r","a","v","i","t","y" >>

HyperSpeed == << "h","y","p","e","r"," ","s","p","e","e","d" >>

MovePrompts == {ReverseGravity, ZeroGravity, HyperSpeed}

MoveMessages ==
  { << [left |-> FALSE, right |-> FALSE, jump |-> TRUE], 1 >>,
    << [left |-> FALSE, right |-> FALSE, jump |-> FALSE], 1 >>,
    << [left |-> TRUE, right |-> FALSE, jump |-> FALSE], FPS >>,
    << [left |-> FALSE, right |-> TRUE, jump |-> TRUE], FPS >> }

NextMove ==
  \/ \E p \in MatchPlayers : Connect(p)
  \/ \E p \in MatchPlayers :
       /\ find_or_create_match(p).created => matches_created < MaxFights
       /\ HandleFindMatch(p)
  \/ \E m \in MatchIds, prompt \in MovePrompts :
       /\ matches[m].status = "active"
       /\ active_modifications[m] = << >>
       /\ \A i \in 1..Len(matches[m].players) : matches[m].players[i].velocity = [x |-> 0, y |-> 0]
       /\ HandleMasterPrompt("p2", m, prompt)
  \/ \E m \in MatchIds, message \in MoveMessages :
       /\ \A i \in 1..Len(matches[m].players) :
            /\ matches[m].players[i].velocity.y > -(MaxRise * 800 * FPS)
            /\ message[2] = 1 => matches[m].players[i].velocity.x = 0
       /\ HandlePlayerInput("p1", m, message[1], message[2])

SpecMove == Init /\ [][NextMove]_vars

\* MatchManager.use_weapon with its early returns: the registry it leaves, the
\* damage it applies and whether it got as far as reading the physics.
use_weapon_in_any_status(match_id, player_id, weapon_id, target_position) ==
  LET match == matches[match_id]
      player == get_player_state(matches, match_id, player_id)
      returned == [matches |-> matches, hits |-> << >>, acted |-> FALSE]
  IN  IF ~match.exists THEN returned
      ELSE IF player = 0 \/ ~match.players[player].is_alive THEN returned
      ELSE IF WeaponIndex(match.players[player].weapons, weapon_id) = 0 THEN returned
      ELSE
        LET weapon == match.players[player].weapons[
                        WeaponIndex(match.players[player].weapons, weapon_id)]
            current_physics == calculate_current_physics(match_id).physics
            blast == _create_area_effect(match_id, match, player, weapon, target_position,
                                         current_physics)
            players == IF weapon.category = "area_effect" THEN blast.players ELSE match.players
            projectiles ==
              IF weapon.category \in {"projectile", "magic"}
                THEN _create_projectile(match, match.players[player], weapon, target_position,
                                        current_physics)
                ELSE match.projectiles
            weapon_cooldown == now + Scaled(weapon.properties.cooldown,
                                            current_physics.cooldown_multiplier)
        IN  [matches |-> [matches EXCEPT
                            ![match_id].players =
                               [players EXCEPT ![player].weapon_cooldown = weapon_cooldown],
                            ![match_id].projectiles = projectiles],
             hits |-> IF weapon.category = "area_effect" THEN blast.hits ELSE << >>,
             acted |-> TRUE]

use_weapon(match_id, player_id, weapon_id, target_position) ==
  LET match == matches[match_id]
      player == get_player_state(matches, match_id, player_id)
      returned == [matches |-> matches, hits |-> << >>, acted |-> FALSE]
  IN  IF ~match.exists \/ match.status # "active" THEN returned
      ELSE IF player = 0 \/ ~match.players[player].is_alive THEN returned
      ELSE IF WeaponIndex(match.players[player].weapons, weapon_id) = 0 THEN returned
      ELSE
        LET weapon == match.players[player].weapons[
                        WeaponIndex(match.players[player].weapons, weapon_id)]
            current_physics == calculate_current_physics(match_id).physics
            blast == _create_area_effect(match_id, match, player, weapon, target_position,
                                         current_physics)
            players == IF weapon.category = "area_effect" THEN blast.players ELSE match.players
            projectiles ==
              IF weapon.category \in {"projectile", "magic"}
                THEN _create_projectile(match, match.players[player], weapon, target_position,
                                        current_physics)
                ELSE match.projectiles
            weapon_cooldown == now + Scaled(weapon.properties.cooldown,
                                            current_physics.cooldown_multiplier)
        IN  [matches |-> [matches EXCEPT
                            ![match_id].players =
                               [players EXCEPT ![player].weapon_cooldown = weapon_cooldown],
                            ![match_id].projectiles = projectiles],
             hits |-> IF weapon.category = "area_effect" THEN blast.hits ELSE << >>,
             acted |-> TRUE]

\* MatchManager.handle_player_input with its early returns, for frames
\* messages with the same input in a row
handle_player_input(match_id, player_id, input_data, frames) ==
  LET match == matches[match_id]
      player == get_player_state(matches, match_id, player_id)
      returned == [matches |-> matches, acted |-> FALSE]
  IN  IF ~match.exists \/ match.status # "active" THEN returned
      ELSE IF player = 0 \/ ~match.players[player].is_alive THEN returned
      ELSE [matches |-> [matches EXCEPT ![match_id].players[player] =
                           HoldInput(@, input_data, calculate_current_physics(match_id).physics,
                                     frames)],
            acted |-> TRUE]

\* A weapon_use message of a connected player, whatever it names
UseWeapon(player_id, match_id, weapon_id, target_position) ==
  LET used == use_weapon(match_id, player_id, weapon_id, target_position)
  IN  /\ sockets[player_id] = "open"
      /\ ~generating[player_id].busy
      /\ matches' = used.matches
      /\ EngineTouch(match_id, used.acted, FALSE)
      /\ hits' = used.hits
      /\ sent' = << >>
      /\ last' = Reply("use_weapon", "", 0, used.acted, 0)
      /\ UNCHANGED << now, modification_history, forgeVars, player_match_map, matches_created,
                      next_frame, connVars >>

\* A player_input message of a connected player, whatever it names
PlayerInput(player_id, match_id, input_data, frames) ==
  LET moved == handle_player_input(match_id, player_id, input_data, frames)
  IN  /\ sockets[player_id] = "open"
      /\ ~generating[player_id].busy
      /\ matches' = moved.matches
      /\ EngineTouch(match_id, moved.acted, FALSE)
      /\ hits' = << >>
      /\ sent' = << >>
      /\ last' = Reply("handle_player_input", "", 0, moved.acted, 0)
      /\ UNCHANGED << now, modification_history, forgeVars, player_match_map, matches_created,
                      next_frame, connVars >>

GateTarget == Position(1184, 500)

\* The server within one frame, with three players who send weapon_use and
\* player_input messages naming any match and any weapon id: p1 and p2 fight,
\* p3 waits.
NextGates ==
  \/ \E p \in Players : Connect(p)
  \/ \E p \in Players :
       /\ find_or_create_match(p).created => matches_created < MaxMatches
       /\ HandleFindMatch(p)
  \/ HandlePlayerDisconnect("p1")
  \/ \E m \in MatchIds :
       /\ \A e \in issued : e.player_id # "p1"
       /\ HandleWeaponGeneration("p1", m, Bomb)
  \/ \E m \in MatchIds :
       /\ \A e \in issued : e.player_id # "p2"
       /\ HandleWeaponGeneration("p2", m, IceSpear)
  \/ \E p \in MatchPlayers : WeaponGenerationReturn(p, [kind |-> "none", data |-> NoData], FALSE)
  \/ \E p \in Players, m \in MatchIds, w \in 1..MaxIssued :
       /\ UseWeapon(p, m, w, GateTarget)
       /\ Len(matches'[m].projectiles) <= MaxVolley
  \/ \E p \in {"p1", "p3"}, m \in MatchIds, input_data \in Inputs :
       PlayerInput(p, m, input_data, FramesHeld)
  \/ GameLoop

SpecGates == InitDamage /\ [][NextGates]_vars

\* The engine under a long run of master prompts for one match.
NextHistory ==
  \/ \E m \in PhysicsMatches :
       Len(modification_history) < MaxHistory /\ apply_master_prompt(IceFloor, m)
  \/ now + 1000 <= MaxHistoryTime /\ AdvanceTime(1000)

SpecHistory == Init /\ [][NextHistory]_vars

(***************************************************************************)
(* Claims about the physics engine, checked under SpecPhysics.             *)
(***************************************************************************)

\* C4: calculate_current_physics depends only on the base constants and the
\* set of active modifications: as long as no modification of the match was
\* applied, removed or has expired since the last call, a further call returns
\* what that call returned, although that call rewrote the stored list.
C4_RepeatedReadAgrees ==
  \A m \in MatchIds :
    physics_seen[m].valid =>
      calculate_current_physics(m).physics = physics_seen[m].physics

\* A read that dropped an expired modification and kept an active one is
\* still remembered.
C4_Witness ==
  \E m \in MatchIds :
    /\ physics_seen[m].valid
    /\ physics_seen[m].physics # BasePhysics
    /\ Len(active_modifications[m]) < Len(applied[m])

\* The modifications of match m that are inside their time window.
InWindow(m) ==
  SelectSeq(applied[m], LAMBDA mod : now < mod.start_time + mod.duration)

\* C5: a modification contributes exactly while now < start_time + duration,
\* whether or not a read has filtered the list in between; "ice floor" alone
\* gives friction 0.8 x 0.1 for 20 s and the baseline 0.8 from then on.
C5_LazyExpiry ==
  \A m \in MatchIds :
    /\ get_active_modifications(m).returned = InWindow(m)
    /\ calculate_current_physics(m).physics = ApplyModifications(BasePhysics, InWindow(m))
    /\ (Len(applied[m]) = 1 /\ applied[m][1].description = "Ice Floor") =>
         calculate_current_physics(m).physics.friction =
           IF now < applied[m][1].start_time + 20000 THEN [n |-> 8, k |-> 1]
                                                     ELSE [n |-> 80, k |-> 1]

\* "ice floor" was the only modification, its 20 s are over, and the read
\* that followed returned the baseline.
C5_Witness ==
  \E m \in MatchIds :
    /\ Len(applied[m]) = 1
    /\ applied[m][1].description = "Ice Floor"
    /\ now >= applied[m][1].start_time + 20000
    /\ last.op = "calculate_current_physics" /\ last.match_id = m
    /\ physics_seen[m].valid
    /\ physics_seen[m].physics.friction = [n |-> 80, k |-> 1]

\* The list with the modifications at i and j exchanged.
Swap(mods, i, j) == [mods EXCEPT ![i] = mods[j], ![j] = mods[i]]

\* C16: the result of calculate_current_physics does not depend on the
\* arrival order of the modifications that share a type: exchanging any two
\* active modifications of one type (gravity, friction, bounce, time_scale,
\* weapon_behavior) in the list leaves every output field unchanged.
C16_SameTypeOrderFree ==
  \A m \in MatchIds :
    LET mods == get_active_modifications(m).returned
    IN  \A i, j \in 1..Len(mods) :
          mods[i].type = mods[j].type =>
            ApplyModifications(BasePhysics, Swap(mods, i, j)) =
              calculate_current_physics(m).physics

\* The modification is of one of the four synthesized kinds, with its
\* parameter and its duration inside the ranges of that kind (hundredths,
\* milliseconds).
Synthesized(mod) ==
  LET within(key, low, high, shortest, longest) ==
        /\ DOMAIN mod.parameters = {key}
        /\ mod.parameters[key] >= low /\ mod.parameters[key] <= high
        /\ mod.duration >= shortest /\ mod.duration <= longest
  IN  \/ mod.type = "gravity" /\ within("multiplier", 20, 250, 10000, 20000)
      \/ mod.type = "bounce" /\ within("multiplier", 50, 300, 12000, 18000)
      \/ mod.type = "friction" /\ within("multiplier", 10, 200, 15000, 25000)
      \/ mod.type = "time_scale" /\ within("scale", 30, 180, 8000, 15000)

\* C24: apply_master_prompt never returns none for a prompt. For a prompt
\* without a library keyword the modification is a synthesized one, of a
\* defined type with parameter and duration in the ranges of that type
\* (gravity: multiplier in [0.2, 2.5], 10 to 20 s), and every call adds
\* exactly one entry, the returned modification, to the match's active list.
C24_AlwaysAModification ==
  [][\A m \in PhysicsMatches : \A prompt \in PhysicsPrompts :
       /\ _parse_physics_prompt(prompt, m) # {}
       /\ FirstLibraryMatch(Strip(Lower(prompt))) = 0 =>
            \A mod \in _parse_physics_prompt(prompt, m) :
              Synthesized(mod) /\ mod.match_id = m /\ mod.start_time = now
       /\ apply_master_prompt(prompt, m) =>
            /\ last'.ok
            /\ \E mod \in _parse_physics_prompt(prompt, m) :
                 active_modifications'[m] = Append(active_modifications[m], mod)]_vars

\* "chaos" has just been applied to a match that had a modification: the
\* list has a second entry, a synthesized one.
C24_Witness ==
  /\ last.op = "apply_master_prompt"
  /\ \E m \in PhysicsMatches :
       /\ Len(active_modifications[m]) = 2
       /\ active_modifications[m][2].start_time = now
       /\ Synthesized(active_modifications[m][2])
       /\ active_modifications[m][2].description \in
            {"Random Gravity", "Random Bounce", "Random Friction", "Random Time"}

\* base times the parameter key of every modification of the type that has it
RECURSIVE Compound(_, _, _, _)
Compound(base, mods, type, key) ==
  IF mods = << >> THEN base
  ELSE Compound(IF Head(mods).type = type /\ key \in DOMAIN Head(mods).parameters
                  THEN Times(base, Head(mods).parameters[key]) ELSE base,
                Tail(mods), type, key)

\* The scale of the time_scale modification applied last, 1.0 without one
LatestScale(mods) ==
  LET scales == SelectSeq(mods, LAMBDA mod : mod.type = "time_scale")
  IN  IF scales = << >> THEN Whole(1)
      ELSE Hundredths(Get(scales[Len(scales)].parameters, "scale", 100))

\* C25: calculate_current_physics returns, over the modifications of the
\* match that are active, in the order they were applied: gravity 800 times
\* the multipliers of the gravity modifications, friction 0.8 times those of
\* the friction modifications, restitution 0.3 times those of the bounce
\* modifications, as time_scale the scale of the time_scale modification
\* applied last (1.0 without one), and as damage, cooldown and size
\* multiplier the products of those parameters of the weapon_behavior
\* modifications.
C25_ReferenceFold ==
  \A m \in PhysicsMatches :
    LET mods == InWindow(m)
    IN  calculate_current_physics(m).physics =
          [gravity |-> Compound(Whole(800), mods, "gravity", "multiplier"),
           friction |-> Compound(Hundredths(80), mods, "friction", "multiplier"),
           restitution |-> Compound(Hundredths(30), mods, "bounce", "multiplier"),
           time_scale |-> LatestScale(mods),
           damage_multiplier |->
             Compound(Whole(1), mods, "weapon_behavior", "damage_multiplier"),
           cooldown_multiplier |->
             Compound(Whole(1), mods, "weapon_behavior", "cooldown_multiplier"),
           size_multiplier |->
             Compound(Whole(1), mods, "weapon_behavior", "size_multiplier")]

\* Two modifications are active and a read has just returned their joint
\* effect: two "ice floor" (friction 0.8 x 0.1 x 0.1), or two time scales of
\* which the second one counts.
C25_Witness ==
  /\ last.op = "calculate_current_physics"
  /\ \E m \in PhysicsMatches :
       /\ physics_seen[m].valid /\ Len(InWindow(m)) = 2
       /\ \/ physics_seen[m].physics.friction = Times(Times(Hundredths(80), 10), 10)
          \/ /\ InWindow(m)[1].type = "time_scale" /\ InWindow(m)[2].type = "time_scale"
             /\ InWindow(m)[1].parameters # InWindow(m)[2].parameters
             /\ physics_seen[m].physics.time_scale = Hundredths(InWindow(m)[2].parameters.scale)

\* The library entries a keyword of which is a substring of the text.
EntriesIn(text) ==
  { i \in 1..Len(physics_library) :
      \E j \in 1..Len(physics_library[i].keywords) :
        Contains(text, physics_library[i].keywords[j]) }

\* Prompts with keywords of several entries, besides those the players send.
SeveralEntries ==
  { NoBounce,
    << "R","e","v","e","r","s","e"," ","G","r","a","v","i","t","y" >>,
    << " ","s","u","p","e","r"," ","s","l","i","p","p","e","r","y" >>,
    << "w","e","i","g","h","t","l","e","s","s"," ","b","o","o","s","t" >> }

\* For each of these prompts the first entry in table order among those with
\* a keyword in the lower-cased and trimmed prompt, 0 if there is none.
FirstInTable ==
  [prompt \in PhysicsPrompts \cup SeveralEntries |->
     LET found == EntriesIn(Strip(Lower(prompt)))
     IN  IF found = {} THEN 0 ELSE CHOOSE i \in found : \A h \in found : i <= h]

CopiedFrom(mod, entry) ==
  /\ mod.type = entry.type
  /\ mod.description = entry.description
  /\ mod.parameters = entry.parameters
  /\ mod.duration = entry.duration

\* C26: a prompt in which keywords of library entries occur, lower-cased and
\* trimmed, gets the modification of the entry that comes first in the
\* table among those with a keyword in it: its type, description, parameters
\* and duration; and that modification is what apply_master_prompt appends.
C26_FirstEntryInTableOrder ==
  [][last'.op = "apply_master_prompt" =>
       \A prompt \in PhysicsPrompts \cup SeveralEntries, m \in PhysicsMatches :
         FirstInTable[prompt] # 0 =>
           /\ _parse_physics_prompt(prompt, m) # {}
           /\ \A mod \in _parse_physics_prompt(prompt, m) :
                CopiedFrom(mod, physics_library[FirstInTable[prompt]])
           /\ (prompt \in PhysicsPrompts /\ apply_master_prompt(prompt, m)) =>
                /\ Len(active_modifications'[m]) = Len(active_modifications[m]) + 1
                /\ CopiedFrom(active_modifications'[m][Len(active_modifications'[m])],
                              physics_library[FirstInTable[prompt]])]_vars

\* " No Bounce " has just been applied: keywords of Bouncy World and of No
\* Bounce occur in it, and the match got Bouncy World.
C26_Witness ==
  /\ last.op = "apply_master_prompt"
  /\ FirstInTable[NoBounce] = 8
  /\ \E m \in PhysicsMatches :
       /\ active_modifications[m] # << >>
       /\ LET mod == active_modifications[m][Len(active_modifications[m])]
          IN  /\ mod.description = "Bouncy World"
              /\ mod.parameters = [multiplier |-> 250]
              /\ mod.duration = 18000
              /\ mod.start_time = now

(***************************************************************************)
(* Claims about the weapon generator, checked under SpecForge.             *)
(***************************************************************************)

InBalanceClamps(properties) ==
  /\ 15 <= properties.damage /\ properties.damage <= 85
  /\ 20 <= properties.speed /\ properties.speed <= 95
  /\ 30 <= properties.range /\ properties.range <= 180
  /\ 3 <= properties.ammo /\ properties.ammo <= 25
  /\ 1500 <= properties.cooldown /\ properties.cooldown <= 4000

\* C6: every weapon generate_weapon returns, on every path, has damage in
\* [15,85], speed in [20,95], range in [30,180], ammo in [3,25] and cooldown
\* in [1500,4000].
C6_StatClampsHold ==
  \A e \in issued : InBalanceClamps(e.weapon.properties)

\* C7: two generate_weapon calls with the same normalised prompt by two
\* different players return weapons with the same name, category, stat block
\* and balance score, each with the player_id of its requester, and with
\* different ids.
C7_SamePromptSameStats ==
  \A e1, e2 \in issued :
    (e1.key = e2.key /\ e1.player_id # e2.player_id) =>
      /\ e1.weapon.name = e2.weapon.name
      /\ e1.weapon.category = e2.weapon.category
      /\ e1.weapon.properties = e2.weapon.properties
      /\ e1.weapon.balance_score = e2.weapon.balance_score
      /\ e1.weapon.player_id = e1.player_id
      /\ e2.weapon.player_id = e2.player_id
      /\ e1.weapon.id # e2.weapon.id

\* The call of generate_weapon that ends with this step has returned a weapon
\* of the player's: a fresh id, one of the five categories, the player as owner.
ReturnsWeapon(p) ==
  /\ last'.op = "generate_weapon" /\ last'.ok /\ last'.player_id = p
  /\ \E e \in issued' \ issued :
       /\ e.player_id = p /\ e.weapon.player_id = p
       /\ e.weapon.id # 0 /\ e.weapon.id = last'.value
       /\ \E i \in 1..Len(WeaponCategories) : WeaponCategories[i] = e.weapon.category
       /\ e.weapon.name # << >>

\* C17: generate_weapon called with a non-empty prompt (one that is not empty
\* once stripped, the test of its input validation) always returns a weapon:
\* the call either returns a cached weapon or goes on to the AI call, and
\* however that call ends (no collaborator, a failure or unparsable output,
\* nothing within the 2.5 s, a reply) and whether or not the template
\* fallback raises, the call returns a weapon, never a failure.
C17_AlwaysAWeapon ==
  [][/\ \A p \in ForgePlayers, prompt \in ForgePrompts :
          (Strip(prompt) # << >> /\ GenerateWeaponCall(p, prompt)) =>
            \/ ReturnsWeapon(p)
            \/ generating'[p].busy /\ last'.ok
     /\ \A p \in ForgePlayers, ai \in AIOutcomes, raises \in BOOLEAN :
          GenerateWeaponReturn(p, ai, raises) => ReturnsWeapon(p)]_vars

\* With the collaborator configured, a call has just returned the emergency
\* weapon.
C17_Witness ==
  /\ gemini_model
  /\ last.op = "generate_weapon" /\ last.ok
  /\ \E e \in issued :
       /\ e.weapon.id = last.value
       /\ Len(e.weapon.name) >= 6
       /\ SubSeq(e.weapon.name, 1, 6) = << "B","a","s","i","c"," " >>
       /\ e.weapon.properties.special_effect = "none"

\* The stat block a generation path computes before any balance pass: the
\* clamped reply of the collaborator, or the template with its variation.
ComputedStats(prompt, ai) ==
  IF gemini_model /\ ai.kind = "reply"
    THEN [damage |-> Max(15, Min(85, Get(ai.data, "damage", 50))),
          speed |-> Max(20, Min(95, Get(ai.data, "speed", 60))),
          range |-> Max(30, Min(180, Get(ai.data, "range", 100))),
          ammo |-> Max(3, Min(25, Get(ai.data, "ammo", 10))),
          cooldown |-> Max(1500, Min(4000, Get(ai.data, "cooldown", 2000))),
          special_effect |-> Get(ai.data, "special_effect", "none")]
    ELSE [_find_best_template(prompt).properties EXCEPT
            !.damage = Max(15, Min(85, @ + HashMod20(prompt) - 10)),
            !.speed = Max(20, Min(95, @ + HashMod20(prompt) - 10))]

\* C28: on the AI path and on the template path, a weapon whose computed
\* balance score exceeds 80 is returned with damage x0.8 and cooldown x1.2
\* applied once and with the score of the nerfed stats; a weapon whose score
\* is at most 80 is returned with the stats as computed.
C28_NerfAboveEighty ==
  [][\A p \in ForgePlayers, ai \in AIOutcomes :
       GenerateWeaponReturn(p, ai, FALSE) =>
         LET computed == ComputedStats(generating[p].prompt, ai)
         IN  \A e \in issued' \ issued :
               IF _calculate_balance_score(computed) > 80 * ScorePoint
                 THEN /\ e.weapon.properties =
                           [computed EXCEPT !.damage = (@ * 8) \div 10,
                                            !.cooldown = (@ * 12) \div 10]
                      /\ e.weapon.balance_score =
                           _calculate_balance_score(e.weapon.properties)
                 ELSE e.weapon.properties = computed]_vars

\* C32: an entry of the weapon cache, once written for a normalised prompt,
\* is never replaced by an entry with another name, category, stat block or
\* balance score, however the generate_weapon calls of the players interleave.
C32_CacheEntriesAreStable ==
  [][\A old \in cache : \A new \in cache' :
       old.key = new.key =>
         /\ new.weapon.name = old.weapon.name
         /\ new.weapon.category = old.weapon.category
         /\ new.weapon.properties = old.weapon.properties
         /\ new.weapon.balance_score = old.weapon.balance_score]_vars

(***************************************************************************)
(* Claims about matchmaking, the game loop and combat, checked under Spec. *)
(***************************************************************************)

\* C1: the health of every player of every match is in 0..100, and from one
\* state to the next the health of a player who stays in a match never
\* increases, except that start_match (the match goes from WAITING to ACTIVE)
\* sets it to 100.
C1_HealthNeverRises ==
  [][\A m \in MatchIds : \A p \in Players :
       LET before == get_player_state(matches, m, p)
           after == get_player_state(matches', m, p)
       IN  /\ after # 0 => matches'[m].players[after].health \in 0..100
           /\ (before # 0 /\ after # 0) =>
                \/ matches'[m].players[after].health <= matches[m].players[before].health
                \/ /\ matches[m].status = "waiting" /\ matches'[m].status = "active"
                   /\ matches'[m].players[after].health = 100]_vars

\* after a master prompt, a hit has just lowered a player's health without
\* killing
C1_Witness ==
  \E k \in 1..Len(hits) :
    /\ hits[k].after > 0 /\ hits[k].after < hits[k].before
    /\ modification_history # << >>
    /\ \E i \in 1..Len(matches[hits[k].match_id].players) :
         /\ matches[hits[k].match_id].players[i].id = hits[k].target
         /\ matches[hits[k].match_id].players[i].health = hits[k].after

\* C2: a step sets a match's status to FINISHED only if it is a tick of the
\* ACTIVE match after which at most one of its players is alive or at which
\* more than 90 s have elapsed since its start, or a remove_player that drops
\* the ACTIVE match below 2 players; and every such tick and every such
\* removal does set it.
C2_FinishedExactlyWhenDue ==
  [][\A m \in MatchIds :
       LET before == matches[m]
           after == matches'[m]
           tick == last'.op = "update_matches"
           few == Len(AlivePlayers(after.players)) <= 1
           late == now - before.start_time > 90000
           due == tick /\ before.status = "active" /\ (few \/ late)
           dropped == /\ last'.op = "player_disconnect"
                      /\ before.status = "active"
                      /\ Len(after.players) < Len(before.players)
                      /\ Len(after.players) < 2
       IN  /\ (before.status # "finished" /\ after.status = "finished") => (due \/ dropped)
           /\ (due \/ dropped) => after.status = "finished"]_vars

\* a tick has just finished a match at the time limit with both players
\* alive, and the match was not finished one second before the limit
C2_Witness ==
  \E m \in MatchIds :
    /\ last.op = "update_matches"
    /\ matches[m].status = "finished" /\ matches[m].end_time = now
    /\ matches[m].end_time - matches[m].start_time > 90000
    /\ Len(AlivePlayers(matches[m].players)) = 2

\* C3: the step that ends a match sets winner_id: with exactly one player
\* alive, to that player; with no player alive, to the earliest player of the
\* list among those with the most kills; with two or more alive, the time
\* limit is exceeded and it is the earliest player among those with the
\* highest health.
C3_WinnerOfEndedMatch ==
  [][\A m \in MatchIds :
       (matches[m].status = "active" /\ matches'[m].status = "finished") =>
         LET players == matches'[m].players
             alive == {i \in 1..Len(players) : players[i].is_alive}
             Earliest(best) == CHOOSE i \in best : \A j \in best : i <= j
             most_kills == {i \in 1..Len(players) :
                              \A j \in 1..Len(players) : players[j].kills <= players[i].kills}
             healthiest == {i \in 1..Len(players) :
                              \A j \in 1..Len(players) : players[j].health <= players[i].health}
         IN  /\ Cardinality(alive) = 1 =>
                  \A i \in alive : matches'[m].winner_id = players[i].id
             /\ Cardinality(alive) = 0 =>
                  /\ players # << >>
                  /\ matches'[m].winner_id = players[Earliest(most_kills)].id
             /\ Cardinality(alive) >= 2 =>
                  /\ matches'[m].end_time - matches'[m].start_time > 90000
                  /\ matches'[m].winner_id = players[Earliest(healthiest)].id]_vars

\* a match has ended with nobody alive and the same number of kills for
\* both players, and the first player of the list is the winner
C3_Witness ==
  \E m \in MatchIds :
    /\ matches[m].status = "finished" /\ Len(matches[m].players) = 2
    /\ AlivePlayers(matches[m].players) = << >>
    /\ matches[m].players[1].kills = matches[m].players[2].kills
    /\ matches[m].winner_id = matches[m].players[1].id

\* C8: when there is no match, a find_match of player A leaves exactly one
\* match, WAITING, holding only A; a find_match of another player B in that
\* state returns the same match, now ACTIVE, holding A then B, both with
\* health 100, at (200,500) and (1000,500).
C8_TwoPlayersAreMatched ==
  [][/\ (last'.op = "find_match" /\ \A m \in MatchIds : ~matches[m].exists) =>
          \E m \in MatchIds :
            /\ last'.match_id = m
            /\ \A o \in MatchIds : matches'[o].exists <=> o = m
            /\ matches'[m].status = "waiting"
            /\ Len(matches'[m].players) = 1
            /\ matches'[m].players[1].id = last'.player_id
     /\ \A m \in MatchIds :
          ( /\ last.op = "find_match" /\ last.match_id = m
            /\ \A o \in MatchIds : matches[o].exists <=> o = m
            /\ matches[m].status = "waiting" /\ Len(matches[m].players) = 1
            /\ matches[m].players[1].id = last.player_id
            /\ last'.op = "find_match" /\ last'.player_id # last.player_id ) =>
              /\ last'.match_id = m
              /\ \A o \in MatchIds : matches'[o].exists <=> o = m
              /\ matches'[m].status = "active"
              /\ Len(matches'[m].players) = 2
              /\ matches'[m].players[1].id = last.player_id
              /\ matches'[m].players[2].id = last'.player_id
              /\ \A i \in 1..2 : matches'[m].players[i].health = 100
              /\ matches'[m].players[1].position = Position(200, 500)
              /\ matches'[m].players[2].position = Position(1000, 500)]_vars

\* the second player's find_match has just come back with the started match
C8_Witness ==
  /\ last.op = "find_match" /\ last.match_id \in MatchIds
  /\ matches[last.match_id].status = "active"
  /\ matches[last.match_id].start_time = now
  /\ Len(matches[last.match_id].players) = 2
  /\ matches[last.match_id].players[2].id = last.player_id

\* C9: in a step with hits, a player's deaths grow by the number of hits that
\* took its health to 0 (at most one, since a dead player is not hit again),
\* is_alive becomes false exactly for the players so hit, the shooter's kills
\* grow by the number of its hits that took a health to 0, and the hits that
\* leave the health above 0 change none of the three.
C9_KillBookkeeping ==
  [][\A m \in MatchIds :
       (\E k \in 1..Len(hits') : hits'[k].match_id = m) =>
         /\ Len(matches'[m].players) = Len(matches[m].players)
         /\ \A i \in 1..Len(matches[m].players) :
              LET before == matches[m].players[i]
                  after == matches'[m].players[i]
                  taken == {k \in 1..Len(hits') :
                              hits'[k].match_id = m /\ hits'[k].target = before.id}
                  lethal_taken == {k \in taken : hits'[k].after = 0}
                  lethal_given == {k \in 1..Len(hits') :
                                     /\ hits'[k].match_id = m /\ hits'[k].shooter = before.id
                                     /\ hits'[k].after = 0}
              IN  /\ after.id = before.id
                  /\ Cardinality(lethal_taken) <= 1
                  /\ after.is_alive = (before.is_alive /\ lethal_taken = {})
                  /\ after.deaths = before.deaths + Cardinality(lethal_taken)
                  /\ after.kills = before.kills + Cardinality(lethal_given)
                  /\ \A k \in taken :
                       /\ hits'[k].after <= hits'[k].before
                       /\ (\A l \in taken : l <= k) => after.health = hits'[k].after
                  /\ taken = {} => after.health = before.health]_vars

\* a projectile has just taken a player's health to 0
C9_Witness ==
  \E k \in 1..Len(hits) :
    /\ hits[k].kind = "projectile" /\ hits[k].before > 0 /\ hits[k].after = 0
    /\ \E i \in 1..Len(matches[hits[k].match_id].players) :
         /\ matches[hits[k].match_id].players[i].id = hits[k].target
         /\ ~matches[hits[k].match_id].players[i].is_alive
         /\ matches[hits[k].match_id].players[i].deaths = 1

\* What the simulator keeps of the players of a match
Standing(match) ==
  [i \in 1..Len(match.players) |->
     [id |-> match.players[i].id, health |-> match.players[i].health,
      position |-> match.players[i].position, kills |-> match.players[i].kills,
      deaths |-> match.players[i].deaths]]

\* C18: FINISHED is terminal and its result is fixed. A match that is
\* FINISHED is, after any step, FINISHED still or removed; while it exists
\* its winner_id and end_time stay what they were; and a tick, a player_input
\* or a weapon_use leaves its players' health, position, kills and deaths and
\* its projectile list as they were.
C18_FinishedIsTerminal ==
  [][\A m \in MatchIds :
       (matches[m].exists /\ matches[m].status = "finished" /\ matches'[m].exists) =>
         /\ matches'[m].status = "finished"
         /\ matches'[m].winner_id = matches[m].winner_id
         /\ matches'[m].end_time = matches[m].end_time
         /\ last'.op \in {"update_matches", "player_input", "weapon_use"} =>
              /\ Standing(matches'[m]) = Standing(matches[m])
              /\ matches'[m].projectiles = matches[m].projectiles]_vars

\* The game loop has run, after the match ended, over a FINISHED match that
\* still has a projectile in its list and a winner.
C18_Witness ==
  /\ last.op = "update_matches"
  /\ \E m \in MatchIds :
       /\ matches[m].exists /\ matches[m].status = "finished"
       /\ matches[m].winner_id # "" /\ matches[m].end_time < now
       /\ matches[m].projectiles # << >>

(***************************************************************************)
(* The generation cooldown, checked under SpecCooldown.                    *)
(***************************************************************************)

\* C10: a weapon_generate request that reaches the cooldown check less than
\* 12 s after a generation of the same player succeeded (the weapon is in
\* the player's list, so no start_match and no new PlayerState lies in
\* between) is answered with a failure and a remaining time above 0 s.
C10_SecondRequestRateLimited ==
  [][\A e \in issued :
       LET m == last'.match_id
           player == get_player_state(matches, m, e.player_id)
       IN  ( /\ last'.op = "weapon_generate" /\ last'.player_id = e.player_id
             /\ player # 0
             /\ WeaponIndex(matches[m].players[player].weapons, e.weapon.id) # 0
             /\ e.at < now /\ now < e.at + 12000 ) =>
               (~last'.ok /\ last'.value > 0)]_vars


(***************************************************************************)
(* Claims about the lobby, checked under SpecLobby.                        *)
(***************************************************************************)

\* C11: find_or_create_match is idempotent for a player who already maps to
\* an existing match: it returns that match and leaves the registry as it is
\* (no player appended, no match created, no mapping changed), and so does
\* the find_match request that calls it, however often it is repeated.
C11_FindMatchIdempotent ==
  [][\A p \in Players :
       LET mapped == player_match_map[p]
           found == find_or_create_match(p)
       IN  (mapped # 0 /\ matches[mapped].exists) =>
             /\ found.match_id = mapped /\ ~found.created
             /\ found.matches = matches
             /\ found.player_match_map = player_match_map
             /\ (last'.op = "find_match" /\ last'.player_id = p) =>
                   /\ last'.match_id = mapped
                   /\ matches' = matches
                   /\ player_match_map' = player_match_map
                   /\ matches_created' = matches_created]_vars

\* The last request was a find_match of the first player of a running match:
\* the match started with the request of its second player, so this one was
\* a repetition.
C11_Witness ==
  /\ last.op = "find_match" /\ last.match_id = 1
  /\ matches[1].status = "active" /\ Len(matches[1].players) = 2
  /\ matches[1].players[1].id = last.player_id

C15_FailedSendCleansUp ==
  [][\A p \in Players :
       ( /\ p \in active_connections /\ p \notin active_connections'
         /\ ~(last'.op = "player_disconnect" /\ last'.player_id = p) ) =>
           /\ player_match_map'[p] = 0
           /\ \A m \in MatchIds :
                /\ PlayerIndex(matches'[m].players, p) = 0
                /\ (PlayerIndex(matches[m].players, p) # 0 /\ matches[m].status = "active") =>
                      matches'[m].status = "finished"]_vars

\* C19: in every reachable state every match holds at most 2 players, however
\* the find_match requests of the players interleave with disconnects, broken
\* sockets and ticks.
C19_AtMostTwoPlayers ==
  \A m \in MatchIds : Len(matches[m].players) <= 2

\* A third player has asked for a match while a match held two players: it
\* was not added to that match.
C19_Witness ==
  /\ last.op = "find_match"
  /\ \E m \in MatchIds :
       /\ matches[m].exists /\ Len(matches[m].players) = 2
       /\ last.match_id # m
       /\ player_match_map[last.player_id] = last.match_id
       /\ matches[last.match_id].exists
       /\ Len(matches[last.match_id].players) = 1

(***************************************************************************)
(* Claims about start_match, checked under SpecStart.                      *)
(***************************************************************************)

\* C12: start_match(match_id) returns false and leaves every match as it is
\* (status, start_time, the players' health, weapons, cooldowns, positions)
\* whenever the match does not exist or does not hold exactly 2 players; it
\* returns true only when it has set the match ACTIVE, started now, with both
\* players reset to full health, alive, without weapons or cooldown, at
\* their starting positions.
C12_StartMatchAllOrNothing ==
  [][\A m \in MatchIds :
       (last'.op = "start_match" /\ last'.match_id = m) =>
         LET unmet == ~matches[m].exists \/ Len(matches[m].players) # 2
             after == matches'[m]
         IN  /\ unmet => (~last'.ok /\ matches' = matches)
             /\ last'.ok =>
                   /\ ~unmet
                   /\ after.status = "active" /\ after.start_time = now
                   /\ Len(after.players) = 2
                   /\ \A i \in 1..2 :
                        /\ after.players[i].id = matches[m].players[i].id
                        /\ after.players[i].health = 100 /\ after.players[i].is_alive
                        /\ after.players[i].weapons = << >>
                        /\ after.players[i].weapon_cooldown = 0
                   /\ after.players[1].position = Position(200, 500)
                   /\ after.players[2].position = Position(1000, 500)
                   /\ \A o \in MatchIds \ {m} : matches'[o] = matches[o]]_vars

\* start_match has just refused a match that exists with a single player.
C12_Witness ==
  /\ last.op = "start_match" /\ ~last.ok
  /\ last.match_id \in MatchIds
  /\ matches[last.match_id].exists /\ Len(matches[last.match_id].players) = 1
  /\ matches[last.match_id].status = "waiting"

(***************************************************************************)
(* Claims about the sweep, checked under SpecSweep.                        *)
(***************************************************************************)

\* The match is WAITING and the clock has just moved on by more than 120 s:
\* it has been WAITING, unfilled, for all that time.
WaitedLong(m) ==
  /\ matches[m].status = "waiting"
  /\ last.op = "advance" /\ last.value > 120000

FinishedLong(m) ==
  /\ matches[m].status = "finished"
  /\ matches[m].end_time # 0 /\ now - matches[m].end_time > 300000

\* C14: under a fairly scheduled game loop a match that has stayed WAITING
\* without filling for more than 120 s is eventually removed from the
\* registry by the sweep (unless it fills first), its players' mappings with
\* it; a FINISHED match is removed once more than 300 s have passed since its
\* end_time, and not before.
C14_SweepReclaims ==
  /\ \A m \in MatchIds : WaitedLong(m) ~> (matches[m].status # "waiting")
  /\ \A m \in MatchIds : FinishedLong(m) ~> ~matches[m].exists
  /\ [][\A m \in MatchIds :
          (matches[m].exists /\ ~matches'[m].exists) =>
            /\ \/ matches[m].status = "waiting"
               \/ matches[m].status = "finished" /\ FinishedLong(m)
            /\ \A p \in Players : player_match_map'[p] # m]_vars

\* The player is connected and in the match, which is FINISHED.
SeesTheEnd(m, p) ==
  /\ matches[m].exists /\ matches[m].status = "finished"
  /\ get_player_state(matches, m, p) # 0
  /\ p \in active_connections /\ sockets[p] = "open"

\* C22: when a match has become FINISHED, every player who is in it and
\* connected is eventually sent a match_end message for it (or is gone
\* first), and no step sends a game_state_update for a match that is FINISHED
\* after it.
C22_MatchEndIsSent ==
  /\ \A m \in MatchIds : \A p \in SweepPlayers :
       SeesTheEnd(m, p) ~>
         \/ \E k \in 1..Len(sent) : sent[k] = Message("match_end", p, m)
         \/ p \notin active_connections \/ sockets[p] # "open"
  /\ [][\A k \in 1..Len(sent') :
          sent'[k].type = "game_state_update" =>
            matches'[sent'[k].match_id].status = "active"]_vars

\* The match is ACTIVE and more than 90 s have passed since its start.
Overdue(m) ==
  /\ matches[m].exists /\ matches[m].status = "active"
  /\ now - matches[m].start_time > 90000

\* C23: under a fairly scheduled game loop every ACTIVE match becomes
\* FINISHED once its elapsed duration exceeds 90 s, whether or not a player
\* has died or left: the first tick after that ends it, and that tick comes.
C23_TimeLimitEndsTheMatch ==
  /\ \A m \in MatchIds : Overdue(m) ~> ~(matches[m].exists /\ matches[m].status = "active")
  /\ [][\A m \in MatchIds :
          (Overdue(m) /\ last'.op = "update_matches") =>
            /\ matches'[m].status = "finished"
            /\ matches'[m].end_time = now]_vars

\* A tick has just ended, by the time limit alone, a match whose two players
\* are both alive.
C23_Witness ==
  /\ last.op = "update_matches"
  /\ \E m \in MatchIds :
       /\ matches[m].status = "finished" /\ matches[m].end_time = now
       /\ matches[m].end_time - matches[m].start_time > 90000
       /\ Len(matches[m].players) = 2
       /\ \A i \in 1..2 : matches[m].players[i].is_alive /\ matches[m].players[i].health = 100

(***************************************************************************)
(* Claims about the master prompt scheduler, checked under SpecScheduler.  *)
(***************************************************************************)
\* The modifications this step has added for match m
FiredInto(m) ==
  {k \in (Len(modification_history) + 1)..Len(modification_history') :
     modification_history'[k].match_id = m}

\* C20: the automatic scheduler fires a modification into a match only if
\* the match is ACTIVE and at least 30 s have passed since the match's last
\* modification, whether a player's master prompt or the scheduler applied
\* it.
C20_SchedulerKeepsItsDistance ==
  [][\A m \in MatchIds :
       (last'.op = "master_prompt_scheduler" /\ FiredInto(m) # {}) =>
         /\ matches[m].exists /\ matches[m].status = "active"
         /\ \A k \in 1..Len(modification_history) :
              modification_history[k].match_id = m =>
                now - modification_history[k].start_time >= 30000]_vars

\* C31: the physics state a match carries and sends to its players (gravity,
\* friction, restitution, time_scale) equals what calculate_current_physics
\* gives the simulator for the match at the same instant, in every match
\* that is running (the matches whose state the game loop sends).
C31_MatchPhysicsIsCurrent ==
  \A m \in MatchIds :
    (matches[m].exists /\ matches[m].status = "active") =>
      LET current_physics == calculate_current_physics(m).physics
      IN  /\ matches[m].physics.gravity = current_physics.gravity
          /\ matches[m].physics.friction = current_physics.friction
          /\ matches[m].physics.restitution = current_physics.restitution
          /\ matches[m].physics.time_scale = current_physics.time_scale

(***************************************************************************)
(* Claims about the weapon list, checked under SpecArsenal.                *)
(***************************************************************************)
\* C21: the weapon list of a player never holds more than 5 weapons, and a
\* weapon_generate request of a player who owns 5 weapons is rejected: it
\* leaves the weapon list and the cooldown of the player as they were.
C21_WeaponListHoldsFive ==
  [][\A m \in MatchIds : \A i \in 1..Len(matches'[m].players) :
       /\ Len(matches'[m].players[i].weapons) <= 5
       /\ (/\ i <= Len(matches[m].players)
           /\ Len(matches[m].players[i].weapons) = 5
           /\ last'.op \in {"weapon_generate", "weapon_generated"}
           /\ last'.player_id = matches[m].players[i].id) =>
            /\ ~last'.ok
            /\ matches'[m].players[i].weapons = matches[m].players[i].weapons
            /\ matches'[m].players[i].weapon_cooldown =
                 matches[m].players[i].weapon_cooldown]_vars

(***************************************************************************)
(* Claims about the modification history, checked under SpecHistory.       *)
(***************************************************************************)
\* C27: the global modification history never holds more than 100 entries,
\* whatever the sequence of apply_master_prompt calls.
C27_HistoryHoldsHundred == Len(modification_history) <= HistoryLimit

(***************************************************************************)
(* Claims about the damage of a projectile, checked under SpecDamage.      *)
(***************************************************************************)
\* C29: when a projectile hits, the health taken from the target is the
\* damage of the weapon multiplied by the damage multiplier once (the one in
\* force when the weapon was fired, which the projectile carries, or the one
\* in force at the hit), and no more than the health the target had: with a
\* multiplier of 2 in force at both times a weapon of damage d takes 2d.
C29_DamageMultipliedOnce ==
  [][\A k \in 1..Len(hits') :
       (last'.op = "update_matches" /\ hits'[k].kind = "projectile") =>
         LET m == hits'[k].match_id
             shooter == PlayerIndex(matches[m].players, hits'[k].shooter)
             at_hit == calculate_current_physics(m).physics.damage_multiplier
         IN  /\ hits'[k].after >= 0
             /\ \E j \in 1..Len(matches[m].projectiles) :
                  LET projectile == matches[m].projectiles[j]
                      found == WeaponIndex(matches[m].players[shooter].weapons,
                                           projectile.weapon_id)
                      d == matches[m].players[shooter].weapons[found].properties.damage
                  IN  /\ projectile.player_id = hits'[k].shooter
                      /\ shooter # 0 /\ found # 0
                      /\ \/ hits'[k].before - hits'[k].after =
                               Min(hits'[k].before, Scaled(d, at_hit))
                         \/ hits'[k].before - hits'[k].after =
                               Min(hits'[k].before, projectile.damage)]_vars

\* The projectile hits of match m among the hits of the step
ProjectileHits(m) ==
  {k \in 1..Len(hits') : hits'[k].kind = "projectile" /\ hits'[k].match_id = m}

\* C30: in a tick every hit of a projectile is on a player other than the one
\* who fired it, and on a player who is alive when it hits; every hit takes
\* its projectile off the list of the match, so that a projectile hits at
\* most one player in the tick and none in a later one.
C30_OneHitPerProjectile ==
  [][last'.op = "update_matches" =>
       \A m \in MatchIds :
         /\ \A k \in ProjectileHits(m) :
              LET target == PlayerIndex(matches[m].players, hits'[k].target)
              IN  /\ hits'[k].shooter # hits'[k].target
                  /\ target # 0 /\ matches[m].players[target].is_alive
                  /\ hits'[k].before > 0
                  /\ \A h \in ProjectileHits(m) :
                       (h < k /\ hits'[h].target = hits'[k].target) => hits'[h].after > 0
         /\ Cardinality(ProjectileHits(m)) + Len(matches'[m].projectiles)
              <= Len(matches[m].projectiles)]_vars

\* Two projectiles reached p1 in one tick: the first has killed p1, and the
\* second, which overlaps the dead player, has hit nobody and is still on
\* the list.
C30_Witness ==
  /\ last.op = "update_matches"
  /\ Len(hits) = 1 /\ hits[1].kind = "projectile" /\ hits[1].after = 0
  /\ LET m == hits[1].match_id
         target == PlayerIndex(matches[m].players, hits[1].target)
     IN  /\ ~matches[m].players[target].is_alive
         /\ Len(matches[m].projectiles) = 1
         /\ matches[m].projectiles[1].player_id = hits[1].shooter
         /\ _check_projectile_player_collision(matches[m].projectiles[1],
                                               matches[m].players[target])

\* C33: the cooldown test and the cooldown set plus weapon append of one
\* weapon_generate request are atomic with respect to the other mutations of
\* the match: while the request of a player is suspended in generate_weapon,
\* no other step removes the player from the match or changes the weapon
\* list and the cooldown that passed the test (start_match resets both).
C33_GenerationIsAtomic ==
  [][\A p \in Players, m \in MatchIds :
       (generating[p].busy /\ generating[p].match_id = m /\ generating'[p].busy) =>
         LET before == get_player_state(matches, m, p)
             after == get_player_state(matches', m, p)
         IN  before # 0 =>
               /\ after # 0
               /\ matches'[m].players[after].weapons = matches[m].players[before].weapons
               /\ matches'[m].players[after].weapon_cooldown =
                    matches[m].players[before].weapon_cooldown]_vars

\* ---------------------------------------------------------------------------
\* Claims about a player's movement, checked under SpecMove
\* ---------------------------------------------------------------------------

\* C34: every player of an ACTIVE match has 16 <= x <= 1184 and 16 <= y <= 500,
\* after any sequence of player inputs under any active physics.
C34_PlayersStayInArena ==
  \A m \in MatchIds :
    (matches[m].exists /\ matches[m].status = "active") =>
      \A i \in 1..Len(matches[m].players) :
        LET position == matches[m].players[i].position
        IN  /\ 16 * PX <= position.x /\ position.x <= (arena_width - 16) * PX
            /\ 16 * PX <= position.y /\ position.y <= 500 * PX

\* A player who rose under a modified gravity while running to the right is
\* held in the arena's upper right corner.
C34_Witness ==
  \E m \in MatchIds :
    /\ matches[m].exists /\ matches[m].status = "active"
    /\ active_modifications[m] # << >>
    /\ last.op = "player_input"
    /\ \E i \in 1..Len(matches[m].players) :
         /\ matches[m].players[i].position = Position(arena_width - 16, 16)
         /\ matches[m].players[i].velocity.y < 0

\* C35: after handle_player_input a player at the ground line (y = 500) has
\* vertical velocity 0, so that a jump in the next message is honoured.
C35_GroundedPlayersCanJump ==
  \A m \in MatchIds :
    (matches[m].exists /\ matches[m].status = "active" /\ last.op = "player_input"
       /\ last.match_id = m) =>
      \A i \in 1..Len(matches[m].players) :
        matches[m].players[i].position.y = 500 * PX => matches[m].players[i].velocity.y = 0

\* ---------------------------------------------------------------------------
\* Claims about the checks of use_weapon and handle_player_input, checked
\* under SpecGates
\* ---------------------------------------------------------------------------

\* What the claim asks of a request for it to act
MayAct(p, m) ==
  /\ matches[m].exists /\ matches[m].status = "active"
  /\ \E i \in 1..Len(matches[m].players) :
       matches[m].players[i].id = p /\ matches[m].players[i].is_alive

HoldsWeapon(p, m, w) ==
  \E i \in 1..Len(matches[m].players) :
    /\ matches[m].players[i].id = p
    /\ \E h \in 1..Len(matches[m].players[i].weapons) : matches[m].players[i].weapons[h].id = w

\* C36: use_weapon and handle_player_input leave the whole registry unchanged
\* when the match id is unknown, the match is not ACTIVE, the player is not in
\* that match or is dead, or (use_weapon) the weapon id is not in the player's
\* weapon list; when they act, they change only the named match.
C36_RefusedRequestsChangeNothing ==
  [][/\ \A p \in Players, m \in MatchIds, w \in 1..MaxIssued :
         UseWeapon(p, m, w, GateTarget) =>
           /\ player_match_map' = player_match_map
           /\ hits' # << >> => MayAct(p, m) /\ HoldsWeapon(p, m, w)
           /\ \A other \in MatchIds :
                (other # m \/ ~MayAct(p, m) \/ ~HoldsWeapon(p, m, w)) =>
                  matches'[other] = matches[other]
     /\ \A p \in Players, m \in MatchIds, input_data \in Inputs :
         PlayerInput(p, m, input_data, FramesHeld) =>
           /\ player_match_map' = player_match_map
           /\ \A other \in MatchIds :
                (other # m \/ ~MayAct(p, m)) => matches'[other] = matches[other]]_vars

\* p2 has just asked for a weapon of p1's in its own match, after it ended
\* with p1's disconnect, while p3 waits in the other match.
C36_Witness ==
  /\ last.op = "use_weapon" /\ ~last.ok
  /\ \E m \in MatchIds, other \in MatchIds :
       /\ matches[m].exists /\ matches[m].status = "finished"
       /\ \E i \in 1..Len(matches[m].players) :
            matches[m].players[i].id = "p2" /\ matches[m].players[i].weapons # << >>
       /\ matches[other].exists /\ matches[other].status = "waiting"

\* The player's use_weapon has run at this very instant: a projectile of
\* theirs was created now, and their weapon_cooldown lies in the future.
UsedJustNow(p, m) ==
  /\ \E k \in 1..Len(matches[m].projectiles) :
       matches[m].projectiles[k].player_id = p /\ matches[m].projectiles[k].created_at = now
  /\ \E i \in 1..Len(matches[m].players) :
       matches[m].players[i].id = p /\ matches[m].players[i].weapon_cooldown > now

\* C40: once use_weapon has set a player's weapon_cooldown, a further
\* use_weapon of that player before that time creates no projectile and
\* applies no damage.
C40_CooldownGatesWeaponUse ==
  [][\A p \in Players, m \in MatchIds, w \in 1..MaxIssued :
       (UsedJustNow(p, m) /\ UseWeapon(p, m, w, GateTarget)) =>
         /\ matches'[m].projectiles = matches[m].projectiles
         /\ hits' = << >>]_vars

\* ---------------------------------------------------------------------------
\* Further claims about matchmaking, checked under SpecLobby and SpecSweep
\* ---------------------------------------------------------------------------

\* C37: every match whose status is ACTIVE holds exactly 2 players, under any
\* interleaving of find_match, disconnects and ticks.
C37_ActiveMatchHoldsTwo ==
  \A m \in MatchIds :
    (matches[m].exists /\ matches[m].status = "active") => Len(matches[m].players) = 2

\* A match that a disconnect ended holds the one player who stayed, and the
\* player who left has just been matched again: the new match is ACTIVE with
\* its two players.
C37_Witness ==
  /\ last.op = "find_match"
  /\ matches[last.match_id].exists /\ matches[last.match_id].status = "active"
  /\ Len(matches[last.match_id].players) = 2
  /\ \E m \in MatchIds :
       /\ matches[m].exists /\ matches[m].status = "finished"
       /\ Len(matches[m].players) = 1

InMatch(p, m) ==
  matches[m].exists /\ \E i \in 1..Len(matches[m].players) : matches[m].players[i].id = p

C39_FindMatchNeverReturnsFinished ==
  last.op = "find_match" =>
    (matches[last.match_id].exists => matches[last.match_id].status # "finished")

=============================================================================
